---- MODULE Spec2Model ----
(***************************************************************************)
(* A model of the poursteady_error_log scripts.                            *)
(*                                                                         *)
(*   Spec / FairSpec  collect_logs.py: main, the thread pool it creates    *)
(*                    and run_parser_on_host in each worker thread         *)
(*   SpecOvernight    overnight_testing.py: start_one / stop_one           *)
(*   SpecRemote       remote_error_log_parser.py: main and ssh_run         *)
(*   SpecReadHosts    collect_logs.py: read_hosts                          *)
(*   SpecTwoRuns      collect_logs.py: one host, run twice                 *)
(*   SpecHostsRepo    hosts_repo.py: HostsRepo.write and HostsRepo.load    *)
(*   SpecSince        main.py: parse_since_input                           *)
(*   SpecMain         main.py: main                                        *)
(*   SpecBulk         overnight_testing.py: start_bulk / stop_bulk         *)
(*                                                                         *)
(* Python values.  None is the empty tuple and any other value x is the    *)
(* one-element tuple <<x>> wherever a field may hold None.  A text (str)   *)
(* is a sequence of tokens: a token is a whitespace character (" " or      *)
(* "\n") or a run of non-whitespace characters, so that str.strip() and    *)
(* truthiness of a str are computed and not assumed.                       *)
(***************************************************************************)
EXTENDS Integers, Sequences, FiniteSets, TLC

VARIABLES
    \* ---- collect_logs.py ----
    hosts,          \* the list read_hosts returned
    defaults,       \* the defaults dict built from the environment
    concurrency,    \* args.concurrency
    at,             \* args.at: absent, malformed, or a local time
    cutoff,         \* main's cutoff, None until --since is resolved
    parser_text,    \* main's parser_text, None until it is loaded
    now,            \* the local clock
    delta,          \* main's delta, None until the schedule wait computed it
    slept,          \* whether time.sleep(delta) was called
    pc,             \* where main is
    exitCode,       \* the exit status of the process, None while it runs
    nsubmitted,     \* how many futures ex.submit has created
    work_queue,     \* the executor's queue of work items (host indices)
    idle_semaphore, \* the executor's count of idle workers
    num_threads,    \* how many threads the executor started
    thr,            \* per work item, the thread running it: pc and locals
    future,         \* the futures, by host index
    collected,      \* the futures as_completed has yielded
    results,        \* main's results list
    saved,          \* what json.dump wrote to --save-json, None before
    summary,        \* the counts of the Summary line, None before
    clients,        \* the SSH client _connect created for a host index
    attempts,       \* how many times _connect was called for a host index
    \* ---- overnight_testing.py ----
    otPc, otOp, otMachine, otClient, otChannel, otConn, otChan, otStep,
    otSent, otRet, otCalls,
    otClock,        \* the clock, in tenths of a second
    otSentAt,       \* the clock at each channel.send of the call
    otExc,          \* the exception raised inside the try of the call
    \* ---- remote_error_log_parser.py ----
    rpPc, rpDevices, rpIdx, rpConn, rpOut, rpRet, rpOpened,
    rpArgv,         \* the arguments the script was launched with
    \* ---- collect_logs.py: read_hosts ----
    rhFile,         \* the lines of the hosts file
    rhLineNo,       \* how many lines the for loop has consumed
    rhHosts,        \* the hosts list
    rhPc,           \* "loop", "returned" or "raised"
    \* ---- collect_logs.py: one host, run twice over the same behaviour ----
    crHost,         \* the host entry
    crDefaults,     \* for each run, the defaults dict
    crBehaviour,    \* what connect and the remote bash do, in both runs
    crPc,           \* for each run, "call", "report" or "done"
    crResult,       \* for each run, what run_parser_on_host returned
    crPrinted,      \* for each run, the lines main printed for the host
    crJson,         \* for each run, what json.dump wrote
    \* ---- hosts_repo.py: HostsRepo.load ----
    hrArgs,         \* the since and machines write was given, None without
    hrFile,         \* the lines of the file at self.path, None without one
    hrPc,           \* "load", "since", "machines", "returned"
    hrLines,        \* lines
    hrIdx,          \* how many of lines are consumed
    hrSince,        \* since
    hrMachines,     \* machines
    \* ---- main.py: parse_since_input ----
    psInput,        \* user_text, a sequence of characters
    psPadsYear,     \* whether the platform's strftime pads %Y to 4 digits
    psPc,           \* "call", "formats", "returned"
    psT,            \* t
    psFmt,          \* the index of the candidate format to try next
    psRet,          \* the str returned
    \* ---- main.py: main ----
    mnPc,           \* where main is
    mnCreds,        \* ps_user and ps_pass, None before load_dotenv
    mnChoice,       \* model_choice
    mnSince,        \* since
    mnHours,        \* hours_float
    mnScan,         \* how run_scan_script went
    mnLoaded,       \* what repo.load() returned
    mnPs1,          \* ps1_selected
    mnIdx,          \* how many machines the running bulk call has passed
    mnLog,          \* the start and stop attempts, the wait, the log run
    \* ---- overnight_testing.py: start_bulk / stop_bulk ----
    bkPc,           \* "loop" or "returned"
    bkOp,           \* "start" for start_bulk, "stop" for stop_bulk
    bkChoice,       \* model_choice
    bkMachines,     \* machines
    bkIdx,          \* how many machines the for loop has passed
    bkCalled        \* the machines start_one / stop_one was called for

collectVars ==
    <<hosts, defaults, concurrency, at, cutoff, parser_text, now, delta,
      slept, pc, exitCode,
      nsubmitted,
      work_queue, idle_semaphore, num_threads, thr, future, collected,
      results, saved, summary, clients, attempts>>

overnightVars ==
    <<otPc, otOp, otMachine, otClient, otChannel, otConn, otChan, otStep,
      otSent, otRet, otCalls, otClock, otSentAt, otExc>>

remoteVars ==
    <<rpPc, rpDevices, rpIdx, rpConn, rpOut, rpRet, rpOpened, rpArgv>>

readHostsVars == <<rhFile, rhLineNo, rhHosts, rhPc>>

twoRunsVars ==
    <<crHost, crDefaults, crBehaviour, crPc, crResult, crPrinted, crJson>>

hostsRepoVars ==
    <<hrArgs, hrFile, hrPc, hrLines, hrIdx, hrSince, hrMachines>>

sinceVars == <<psInput, psPadsYear, psPc, psT, psFmt, psRet>>

workflowVars ==
    <<mnPc, mnCreds, mnChoice, mnSince, mnHours, mnScan, mnLoaded, mnPs1,
      mnIdx, mnLog>>

bulkVars == <<bkPc, bkOp, bkChoice, bkMachines, bkIdx, bkCalled>>

vars ==
    <<collectVars, overnightVars, remoteVars, readHostsVars, twoRunsVars,
      hostsRepoVars, sinceVars, workflowVars, bulkVars>>

\* What the actions of one script leave alone: the state of the others.
otherVars ==
    <<overnightVars, remoteVars, readHostsVars, twoRunsVars,
      hostsRepoVars, sinceVars, workflowVars, bulkVars>>

notOvernight ==
    <<collectVars, remoteVars, readHostsVars, twoRunsVars,
      hostsRepoVars, sinceVars, workflowVars, bulkVars>>

notRemote ==
    <<collectVars, overnightVars, readHostsVars, twoRunsVars,
      hostsRepoVars, sinceVars, workflowVars, bulkVars>>

notReadHosts ==
    <<collectVars, overnightVars, remoteVars, twoRunsVars,
      hostsRepoVars, sinceVars, workflowVars, bulkVars>>

notTwoRuns ==
    <<collectVars, overnightVars, remoteVars, readHostsVars,
      hostsRepoVars, sinceVars, workflowVars, bulkVars>>

notSince ==
    <<collectVars, overnightVars, remoteVars, readHostsVars, twoRunsVars,
      hostsRepoVars, workflowVars, bulkVars>>

notHostsRepo ==
    <<collectVars, overnightVars, remoteVars, readHostsVars,
      twoRunsVars, sinceVars, workflowVars, bulkVars>>

notWorkflow ==
    <<collectVars, overnightVars, remoteVars, readHostsVars, twoRunsVars,
      hostsRepoVars, sinceVars, bulkVars>>

notBulk ==
    <<collectVars, overnightVars, remoteVars, readHostsVars, twoRunsVars,
      hostsRepoVars, sinceVars, workflowVars>>

----------------------------------------------------------------------------
\* Bounds of the model.

\* The longest host list.
MaxHosts == 2

\* The largest --concurrency.
MaxConcurrency == 2

\* The clock when main starts.
NowStart == 1

\* How far the clock runs after main started.
MaxWait == 2

\* The longest hosts file read_hosts is given.
MaxLines == 2

\* How much longer than asked, in tenths of a second, a time.sleep may take.
MaxOversleep == 1

\* The longest hosts file HostsRepo.load is given.
MaxRepoLines == 3

\* How many times start_one / stop_one are called in a run of SpecOvernight.
MaxCalls == 2

\* The longest device list of hosts.txt in SpecRemote.
MaxDevices == 2

\* The longest machine list in SpecMain and SpecBulk.
MaxMachines == 2

----------------------------------------------------------------------------
\* Python values.

None == <<>>

Some(x) == <<x>>

Get(o) == o[1]

\* bool(o) of an optional str: None and "" are falsy.
TruthyStr(o) == o # None /\ Get(o) # ""

\* bool(o) of an optional text: None and the empty text are falsy.
TruthyText(o) == o # None /\ Get(o) # <<>>

IsSpace(tok) == tok \in {" ", "\n", "\t"}

RECURSIVE lstrip(_)
lstrip(t) ==
    IF t # <<>> /\ IsSpace(Head(t)) THEN lstrip(Tail(t)) ELSE t

RECURSIVE rstrip(_)
rstrip(t) ==
    IF t # <<>> /\ IsSpace(t[Len(t)])
    THEN rstrip(SubSeq(t, 1, Len(t) - 1))
    ELSE t

\* str.strip()
strip(t) == rstrip(lstrip(t))

----------------------------------------------------------------------------
\* collect_logs.py: the inputs.

\* Host entries as read_hosts builds them: username and port are present
\* only when the line gave a non-empty third or fourth field.
HostPool ==
    { [name |-> "PS1428", ip |-> "192.168.1.148",
       username |-> None, port |-> None],
      [name |-> "PS1430", ip |-> "192.168.1.150",
       username |-> Some("ubuntu"), port |-> Some(2222)] }

HostLists == UNION { [1..n -> HostPool] : n \in 0..MaxHosts }

\* os.getenv("SSH_USERNAME"): unset, or a user name.
DefaultUsers == { None, Some("pi") }

\* --at: absent, not an ISO date-time, or a local time before or after the
\* clock at the start.
AtArgs ==
    { [kind |-> "absent", when |-> 0], [kind |-> "malformed", when |-> 0],
      [kind |-> "time", when |-> NowStart - 1],
      [kind |-> "time", when |-> NowStart + 1] }

\* --since: not an ISO date-time, or the date-time fromisoformat reads.
SinceArgs ==
    { [kind |-> "malformed"],
      [kind |-> "iso", year |-> 2025, month |-> 11, day |-> 5, hour |-> 20,
       minute |-> 0] }

\* f"{n:02d}" and f"{n:04d}", as digits.
zero_padded(n, width) ==
    LET digits == ToString(n)
    IN  [k \in 1..(width - Len(digits)) |-> "0"] \o <<digits>>

\* iso_to_cutoff_yyyymmddhhmm for a --since that fromisoformat accepted.
iso_to_cutoff_yyyymmddhhmm(t) ==
    zero_padded(t.year, 4) \o zero_padded(t.month, 2)
        \o zero_padded(t.day, 2) \o zero_padded(t.hour, 2)
        \o zero_padded(t.minute, 2)

\* The built-in parser script, by its first lines.
BUILTIN_PARSER ==
    <<"#!/usr/bin/env bash", "\n", "SINCE=\"$1\"", "\n">>

\* What the remote bash can answer: exit status, stdout, stderr.
RemoteRuns ==
    { [exit_status |-> 0, out |-> <<"3 8110 2025-11-05T20:13:00-05:00", "\n">>,
       err |-> <<"zcat: warning", "\n">>],
      [exit_status |-> 1, out |-> <<>>, err |-> <<"\n">>] }

\* What client.connect can raise, and whether the transport it started is
\* still open when it raises: a refused or timed-out socket never had one,
\* a rejected login leaves it running until close().  A client is "none"
\* before it is created, then "unconnected", "open" once connect returned,
\* "half" when connect raised and left its transport open, and "closed"
\* after close().
ConnectFailures ==
    { [cls |-> "socket.timeout", msg |-> <<"timed out">>, transport |-> FALSE],
      [cls |-> "AuthenticationException",
       msg |-> <<"Authentication failed.">>, transport |-> TRUE],
      [cls |-> "SSHException",
       msg |-> <<"Error reading SSH protocol banner">>, transport |-> FALSE] }

\* What exec_command, the writes and the reads can raise on an open client.
RunFailures ==
    { [cls |-> "socket.timeout", msg |-> <<>>] }

\* The paramiko class hierarchy the except clauses test against.
IsAuthenticationException(cls) == cls = "AuthenticationException"

IsSSHException(cls) == cls \in {"SSHException", "AuthenticationException"}

IsException(cls) ==
    cls \in {"SSHException", "AuthenticationException", "socket.timeout",
             "FileNotFoundError"}

----------------------------------------------------------------------------
\* collect_logs.py: read_hosts.
\*
\* A line is a text in which "," and "#" are tokens of their own.

\* What a line of a hosts file may be.
LinePool ==
    { <<"10.0.0.5", "\n">>,
      <<"10.0.0.5", ",", "alice", ",", "2222", "\n">>,
      <<"PS1428", ",", " ", "192.168.1.148", "\n">>,
      <<"PS1430", ",", " ", "192.168.1.150", ",", " ", "ubuntu", ",", " ",
        "2222", "\n">>,
      <<"PS1429", ",", "192.168.1.149", ",", ",", "22">>,
      <<"PS1431", ",", "192.168.1.151", ",", "pi", ",", "ssh", "\n">>,
      <<"#", " ", "PS1432", ",", "192.168.1.152", "\n">>,
      <<" ", "#", "spare", "\n">>,
      <<"\n">> }

HostsFiles == UNION { [1..n -> LinePool] : n \in 0..MaxLines }

\* The decimal numerals the pool's lines hold, as int() reads them; int()
\* of any other text raises ValueError.
Numerals == [t \in {<<"22">>, <<"2222">>} |-> IF t = <<"22">> THEN 22 ELSE 2222]

\* line.startswith(prefix)
startswith(t, prefix) == t # <<>> /\ Head(t) = prefix

\* line.split(sep)
RECURSIVE split(_, _)
split(t, sep) ==
    IF \E k \in 1..Len(t) : t[k] = sep
    THEN LET k == CHOOSE j \in 1..Len(t) :
                      t[j] = sep /\ \A h \in 1..(j - 1) : t[h] # sep
         IN  <<SubSeq(t, 1, k - 1)>> \o split(SubSeq(t, k + 1, Len(t)), sep)
    ELSE <<t>>

\* if not line or line.startswith("#"), were comments not skipped.
skip_blank_only(line) == line = <<>>

\* if not line or line.startswith("#")
skip(line) == line = <<>> \/ startswith(line, "#")

\* The body of the for loop of read_hosts for one line: the line is skipped,
\* an entry is appended, or ValueError is raised.
read_line(raw) ==
    LET line == strip(raw)
        sp == split(line, ",")
        parts == [k \in 1..Len(sp) |-> strip(sp[k])]
        has_username == Len(parts) >= 3 /\ parts[3] # <<>>
        has_port == Len(parts) >= 4 /\ parts[4] # <<>>
    IN  IF skip(line) THEN [kind |-> "continue"]
        ELSE IF Len(parts) < 2 THEN [kind |-> "ValueError"]
        ELSE IF has_port /\ parts[4] \notin DOMAIN Numerals
        THEN [kind |-> "ValueError"]
        ELSE [kind |-> "append",
              entry |-> [name |-> parts[1], ip |-> parts[2],
                         username |-> IF has_username THEN Some(parts[3])
                                      ELSE None,
                         port |-> IF has_port THEN Some(Numerals[parts[4]])
                                  ELSE None]]

InitReadHosts ==
    /\ rhFile \in HostsFiles
    /\ rhLineNo = 0
    /\ rhHosts = <<>>
    /\ rhPc = "loop"

\* One round of the for loop, or the return after the last line.
ReadLine ==
    /\ rhPc = "loop"
    /\ IF rhLineNo < Len(rhFile)
       THEN LET r == read_line(rhFile[rhLineNo + 1])
            IN  /\ rhLineNo' = rhLineNo + 1
                /\ rhPc' = IF r.kind = "ValueError" THEN "raised" ELSE "loop"
                /\ rhHosts' = IF r.kind = "append"
                               THEN Append(rhHosts, r.entry) ELSE rhHosts
       ELSE rhPc' = "returned" /\ UNCHANGED <<rhLineNo, rhHosts>>
    /\ UNCHANGED rhFile
    /\ UNCHANGED notReadHosts

----------------------------------------------------------------------------
\* collect_logs.py: run_parser_on_host.

\* The result dict before anything ran, for the defaults dict d.
new_result(host, d) ==
    LET username == IF TruthyStr(host.username) THEN host.username
                    ELSE d.username
        port == IF host.port # None /\ Get(host.port) # 0
                THEN Get(host.port) ELSE d.port
    IN  [name |-> host.name, ip |-> host.ip, username |-> username,
         port |-> port, ok |-> FALSE, output |-> <<>>, error |-> None,
         exit_status |-> None]

\* The result dict before anything ran.
NewResult(host) == new_result(host, defaults)

\* The username check with the test left out.
UsernameNeverMissing(result) == FALSE

\* if not username
MissingUsername(result) == ~TruthyStr(result.username)

NoUsernameError ==
    <<"No username (set in hosts.txt or SSH_USERNAME in .env)">>

\* result.update(...) after the remote bash ended.
UpdateResult(result, run) ==
    [result EXCEPT
        !.ok = (run.exit_status = 0),
        !.output = strip(run.out),
        !.error = IF run.exit_status # 0 THEN Some(strip(run.err)) ELSE None,
        !.exit_status = Some(run.exit_status)]

\* The except clauses without the last one.
ExceptClausesWithoutCatchAll(exc, result) ==
    IF IsAuthenticationException(exc.cls)
    THEN [caught |-> TRUE,
          result |-> [result EXCEPT !.error =
              Some(<<"Authentication failed (check key/password and username).">>)]]
    ELSE IF IsSSHException(exc.cls)
    THEN [caught |-> TRUE,
          result |-> [result EXCEPT !.error =
              Some(<<"SSH error: ">> \o exc.msg)]]
    ELSE [caught |-> FALSE, result |-> result]

\* The except clauses with a last one that records nothing.
ExceptClausesSilentCatchAll(exc, result) ==
    IF IsAuthenticationException(exc.cls)
    THEN [caught |-> TRUE,
          result |-> [result EXCEPT !.error =
              Some(<<"Authentication failed (check key/password and username).">>)]]
    ELSE IF IsSSHException(exc.cls)
    THEN [caught |-> TRUE,
          result |-> [result EXCEPT !.error =
              Some(<<"SSH error: ">> \o exc.msg)]]
    ELSE [caught |-> TRUE, result |-> result]

\* The except clauses of run_parser_on_host, in order: whether the exception
\* is caught and the result they leave.
ExceptClauses(exc, result) ==
    IF IsAuthenticationException(exc.cls)
    THEN [caught |-> TRUE,
          result |-> [result EXCEPT !.error =
              Some(<<"Authentication failed (check key/password and username).">>)]]
    ELSE IF IsSSHException(exc.cls)
    THEN [caught |-> TRUE,
          result |-> [result EXCEPT !.error =
              Some(<<"SSH error: ">> \o exc.msg)]]
    ELSE IF IsException(exc.cls)
    THEN [caught |-> TRUE,
          result |-> [result EXCEPT !.error =
              Some(<<"Connection/run error: ", exc.cls, ": ">> \o exc.msg)]]
    ELSE [caught |-> FALSE, result |-> result]

----------------------------------------------------------------------------
\* collect_logs.py: main and the thread pool.
\*
\* The pool's threads are interchangeable, so the model keeps their number
\* and, for each work item, the state of the thread that runs it.

Hosts == 1..Len(hosts)

\* max_workers as main passes it to ThreadPoolExecutor, were it the host count.
max_workers_per_host == Len(hosts)

\* max_workers as main passes it to ThreadPoolExecutor.
max_workers == concurrency

\* results.append(r), were it done for the hosts that succeeded only.
results_append_if_ok(rs, r) == IF r.ok THEN Append(rs, r) ELSE rs

\* results.append(r)
results_append(rs, r) == Append(rs, r)

\* A malformed --at, were the message printed and the run carried on.
BadAtCarryOn == [pc |-> "pool", exitCode |-> None]

\* A malformed --at: the message is printed and sys.exit(2) ends the run.
BadAt == [pc |-> "exit", exitCode |-> Some(2)]

\* The work items a thread is running: run_parser_on_host was entered and
\* has not returned.
InFlight == { i \in Hosts : future[i].state = "running" }

\* The threads blocked on the work queue.
waiting_threads == num_threads - Cardinality(InFlight)

NoLocals == [pc |-> "none", result |-> None, exc |-> None]

NoFuture == [state |-> "unsubmitted", exception |-> None, result |-> None]

InitCollect ==
    /\ hosts \in HostLists
    /\ defaults \in [username : DefaultUsers, port : {22}]
    /\ concurrency \in 0..MaxConcurrency
    /\ at \in AtArgs
    /\ cutoff = None
    /\ parser_text = None
    /\ now = NowStart
    /\ delta = None
    /\ slept = FALSE
    /\ pc = "start"
    /\ exitCode = None
    /\ nsubmitted = 0
    /\ work_queue = <<>>
    /\ idle_semaphore = 0
    /\ num_threads = 0
    /\ thr = [i \in Hosts |-> NoLocals]
    /\ future = [i \in Hosts |-> NoFuture]
    /\ collected = {}
    /\ results = <<>>
    /\ saved = None
    /\ summary = None
    /\ clients = [i \in Hosts |-> "none"]
    /\ attempts = [i \in Hosts |-> 0]

mainVars ==
    <<pc, exitCode, now, delta, slept, nsubmitted, collected, results>>

inputVars == <<hosts, defaults, concurrency, at>>

requestVars == <<cutoff, parser_text>>

reportVars == <<saved, summary>>

\* main up to the schedule wait: the cutoff is resolved from --since, which
\* raises ValueError when it is not an ISO date-time, and the hosts are read.
Prepare ==
    /\ pc = "start"
    /\ \E since \in SinceArgs :
          IF since.kind = "iso"
          THEN /\ cutoff' = Some(iso_to_cutoff_yyyymmddhhmm(since))
               /\ parser_text' = Some(BUILTIN_PARSER)
               /\ pc' = "gate" /\ exitCode' = exitCode
          ELSE /\ pc' = "exit" /\ exitCode' = Some(1)
               /\ UNCHANGED requestVars
    /\ UNCHANGED <<inputVars, reportVars, now, delta, slept, nsubmitted,
                   collected, results, work_queue, idle_semaphore,
                   num_threads, thr, future, clients, attempts, otherVars>>

\* if delta > 0, were the wait never taken.
must_wait_never(d) == FALSE

\* if delta > 0
must_wait(d) == d > 0

\* The optional schedule wait, up to time.sleep: --at is parsed, the clock
\* is read and delta computed.
ScheduleGate ==
    /\ pc = "gate"
    /\ IF at.kind = "absent"
       THEN pc' = "pool" /\ exitCode' = exitCode /\ delta' = delta
       ELSE IF at.kind = "malformed"
       THEN pc' = BadAt.pc /\ exitCode' = BadAt.exitCode /\ delta' = delta
       ELSE /\ delta' = Some(at.when - now)
            /\ pc' = IF must_wait(at.when - now) THEN "sleep" ELSE "pool"
            /\ exitCode' = exitCode
    /\ UNCHANGED <<inputVars, requestVars, reportVars, now, slept, nsubmitted,
                   collected, results, work_queue, idle_semaphore,
                   num_threads, thr, future, clients, attempts, otherVars>>

\* The local clock moves on.  Nothing reads it once the last host is
\* submitted, and nothing reads it at all without a well-formed --at.
Tick ==
    /\ at.kind = "time"
    /\ pc \in {"gate", "sleep", "pool", "submit"}
    /\ now < NowStart + MaxWait
    /\ now' = now + 1
    /\ UNCHANGED <<inputVars, requestVars, reportVars, delta, slept, pc,
                   exitCode, nsubmitted, collected, results, work_queue,
                   idle_semaphore, num_threads, thr, future, clients,
                   attempts, otherVars>>

\* time.sleep(delta) is called and returns: no sooner than delta after the
\* call.
Sleep ==
    /\ pc = "sleep"
    /\ \E woke \in (now + Get(delta))..(NowStart + MaxWait + 1) : now' = woke
    /\ slept' = TRUE
    /\ pc' = "pool"
    /\ UNCHANGED <<inputVars, requestVars, reportVars, delta, exitCode,
                   nsubmitted, collected, results, work_queue, idle_semaphore,
                   num_threads, thr, future, clients, attempts, otherVars>>

\* ThreadPoolExecutor(max_workers=...) raises ValueError unless it is positive.
CreatePool ==
    /\ pc = "pool"
    /\ IF max_workers <= 0
       THEN pc' = "exit" /\ exitCode' = Some(1)
       ELSE /\ pc' = IF Len(hosts) = 0 THEN "collect" ELSE "submit"
            /\ exitCode' = exitCode
    /\ UNCHANGED <<inputVars, requestVars, reportVars, now, delta, slept,
                   nsubmitted, collected, results, work_queue, idle_semaphore,
                   num_threads, thr, future, clients, attempts, otherVars>>

\* ex.submit(run_parser_on_host, h, ...) for the next host of the list: the
\* work item is queued, and a thread is started when no worker is idle and
\* fewer than max_workers threads exist.
Submit ==
    /\ pc = "submit"
    /\ LET i == nsubmitted + 1
       IN  /\ nsubmitted' = i
           /\ work_queue' = Append(work_queue, i)
           /\ future' = [future EXCEPT ![i].state = "pending"]
           /\ IF idle_semaphore > 0
              THEN /\ idle_semaphore' = idle_semaphore - 1
                   /\ num_threads' = num_threads
              ELSE /\ idle_semaphore' = idle_semaphore
                   /\ num_threads' = IF num_threads < max_workers
                                     THEN num_threads + 1 ELSE num_threads
           /\ pc' = IF i = Len(hosts) THEN "collect" ELSE "submit"
    /\ UNCHANGED <<inputVars, requestVars, reportVars, now, delta, slept,
                   exitCode, collected, results, thr, clients, attempts,
                   otherVars>>

\* One round of the as_completed loop: fut.result() and results.append(r).
Collect(i) ==
    /\ pc = "collect"
    /\ i \in Hosts \ collected
    /\ future[i].state = "finished"
    /\ collected' = collected \cup {i}
    /\ IF future[i].exception # None
       THEN pc' = "exit" /\ exitCode' = Some(1) /\ results' = results
       ELSE /\ pc' = pc /\ exitCode' = exitCode
            /\ results' = results_append(results, Get(future[i].result))
    /\ UNCHANGED <<inputVars, requestVars, reportVars, now, delta, slept,
                   nsubmitted, work_queue, idle_semaphore, num_threads, thr,
                   future, clients, attempts, otherVars>>

\* The as_completed loop, were it left after the first future.
as_completed_first == collected # {} \/ Hosts = {}

\* The as_completed loop is over: every future was yielded.
as_completed_over == collected = Hosts

\* The loop is over and the pool is shut down: the aggregate JSON is written
\* when --save-json was given, and the summary is counted and printed.  A
\* file that cannot be written ends the run before the summary.
Finish ==
    /\ pc = "collect"
    /\ as_completed_over
    /\ \E save_json \in BOOLEAN, written \in BOOLEAN :
          /\ saved' = IF save_json /\ written THEN Some(results) ELSE saved
          /\ IF save_json /\ ~written
             THEN pc' = "exit" /\ exitCode' = Some(1) /\ summary' = summary
             ELSE LET ok == Cardinality({k \in 1..Len(results) :
                                           results[k].ok})
                  IN  /\ pc' = "done"
                      /\ exitCode' = Some(0)
                      /\ summary' = Some([ok |-> ok,
                                           fail |-> Len(results) - ok])
    /\ UNCHANGED <<inputVars, requestVars, now, delta, slept, nsubmitted,
                   collected, results, work_queue, idle_semaphore,
                   num_threads, thr, future, clients, attempts, otherVars>>

\* A waiting thread takes the next work item off the queue and enters
\* run_parser_on_host, which runs up to its try: the result dict is built
\* and a missing username returns at once.
Begin ==
    /\ waiting_threads > 0
    /\ work_queue # <<>>
    /\ LET i == Head(work_queue)
           result == NewResult(hosts[i])
       IN  /\ future' = [future EXCEPT ![i].state = "running"]
           /\ IF MissingUsername(result)
              THEN thr' = [thr EXCEPT
                       ![i].pc = "return",
                       ![i].result =
                           Some([result EXCEPT !.error = Some(NoUsernameError)])]
              ELSE thr' = [thr EXCEPT ![i].pc = "connect",
                                      ![i].result = Some(result)]
    /\ work_queue' = Tail(work_queue)
    /\ UNCHANGED <<inputVars, requestVars, reportVars, mainVars,
                   idle_semaphore, num_threads, clients, attempts, otherVars>>

\* What a raise inside the outer try leaves in the thread: the except
\* clauses' result, or the exception on its way out of the function.
Raise(t, exc) ==
    LET h == ExceptClauses(exc, Get(t.result))
    IN  IF h.caught
        THEN [t EXCEPT !.pc = "return", !.result = Some(h.result),
                       !.exc = None]
        ELSE [t EXCEPT !.pc = "return", !.exc = Some(exc)]

\* _connect: the client is created and client.connect returns or raises.
Connect(i) ==
    /\ thr[i].pc = "connect"
    /\ attempts' = [attempts EXCEPT ![i] = @ + 1]
    /\ \/ /\ clients' = [clients EXCEPT ![i] = "open"]
          /\ thr' = [thr EXCEPT ![i].pc = "exec"]
       \/ \E f \in ConnectFailures :
             /\ clients' = [clients EXCEPT ![i] =
                    IF f.transport THEN "half" ELSE "unconnected"]
             /\ thr' = [thr EXCEPT ![i] =
                    Raise(@, [cls |-> f.cls, msg |-> f.msg])]
    /\ UNCHANGED <<inputVars, requestVars, reportVars, mainVars, work_queue,
                   idle_semaphore, num_threads, future, otherVars>>

\* The body of the inner try: exec_command, the parser written to stdin,
\* the exit status and the output read, result.update(...).
Exec(i) ==
    /\ thr[i].pc = "exec"
    /\ \/ \E run \in RemoteRuns :
             thr' = [thr EXCEPT
                 ![i].pc = "finally",
                 ![i].result = Some(UpdateResult(Get(@), run))]
       \/ \E f \in RunFailures :
             thr' = [thr EXCEPT ![i].pc = "finally", ![i].exc = Some(f)]
    /\ UNCHANGED <<inputVars, requestVars, reportVars, mainVars, work_queue,
                   idle_semaphore, num_threads, future, clients, attempts,
                   otherVars>>

\* The finally clause, client.close(), and then the except clauses when the
\* inner try raised.
Finally(i) ==
    /\ thr[i].pc = "finally"
    /\ clients' = [clients EXCEPT ![i] = "closed"]
    /\ thr' = [thr EXCEPT ![i] =
           IF @.exc = None THEN [@ EXCEPT !.pc = "return"]
           ELSE Raise(@, Get(@.exc))]
    /\ UNCHANGED <<inputVars, requestVars, reportVars, mainVars, work_queue,
                   idle_semaphore, num_threads, future, attempts, otherVars>>

\* run_parser_on_host returns (or lets its exception out): the future is
\* finished and the thread goes back to the queue.
Return(i) ==
    /\ thr[i].pc = "return"
    /\ future' = [future EXCEPT ![i] =
           IF thr[i].exc = None
           THEN [state |-> "finished", exception |-> None,
                 result |-> thr[i].result]
           ELSE [state |-> "finished", exception |-> thr[i].exc,
                 result |-> None]]
    /\ thr' = [thr EXCEPT ![i] = NoLocals]
    /\ idle_semaphore' = idle_semaphore + 1
    /\ UNCHANGED <<inputVars, requestVars, reportVars, mainVars, work_queue,
                   num_threads, clients, attempts, otherVars>>

----------------------------------------------------------------------------
\* collect_logs.py: what one host's execution leaves in the result, on the
\* terminal and in the aggregate JSON, as a function of the host entry, the
\* defaults and what the connection and the remote bash do.

Runs == {"A", "B"}

\* os.getenv("SSH_PASSWORD") and os.getenv("SSH_KEY"), the path of a key file.
Passwords == { None, Some("hunter2"), Some("swordfish") }

KeyFiles == { None, Some("/home/pi/.ssh/id_ed25519"), Some("/home/pi/.ssh/id_rsa") }

AllDefaults ==
    [username : DefaultUsers, port : {22}, password : Passwords,
     key : KeyFiles]

\* How client.connect ends: it returns, it raises one of ConnectFailures, or
\* the key file it was given cannot be opened.
ConnectOutcomes ==
    {"ok", "FileNotFoundError"} \cup { f.cls : f \in ConnectFailures }

Behaviours == [connect : ConnectOutcomes, run : RemoteRuns \cup RunFailures]

\* The exception client.connect raises, were its text to repeat the
\* password it was given.
connect_raises_echo(outcome, d) ==
    [cls |-> "SSHException",
     msg |-> <<"Authentication failed for password ">>
             \o (IF d.password = None THEN <<>> ELSE <<Get(d.password)>>)]

\* The exception client.connect raises: open() names the key file it could
\* not find, the others carry a fixed text.
connect_raises(outcome, d) ==
    IF outcome = "FileNotFoundError"
    THEN [cls |-> outcome,
          msg |-> <<"[Errno 2] No such file or directory: ", "'",
                    Get(d.key), "'">>]
    ELSE LET f == CHOOSE g \in ConnectFailures : g.cls = outcome
         IN  [cls |-> f.cls, msg |-> f.msg]

\* run_parser_on_host(host, ..., defaults) where the connection and the
\* remote bash do what b says.
run_parser_on_host(host, d, b) ==
    LET result == new_result(host, d)
    IN  IF MissingUsername(result)
        THEN [result EXCEPT !.error = Some(NoUsernameError)]
        ELSE IF b.connect # "ok"
        THEN ExceptClauses(connect_raises(b.connect, d), result).result
        ELSE IF b.run \in RunFailures
        THEN ExceptClauses(b.run, result).result
        ELSE UpdateResult(result, b.run)

\* The lines main prints for one result.
status_lines(r) ==
    LET tag == <<r.name, " (", r.ip, ")">>
    IN  IF r.ok
        THEN << <<"===== ">> \o tag
                    \o <<" - OK (exit ", ToString(Get(r.exit_status)),
                         ") =====">>,
                IF r.output # <<>> THEN r.output ELSE <<"<no matches>">>,
                <<>> >>
        ELSE << <<"===== ">> \o tag \o <<" - FAIL =====">>,
                IF TruthyText(r.error) THEN Get(r.error)
                ELSE <<"Unknown error">>,
                <<>> >>

\* json.dump of a str: quoted, a newline written as \n.
json_str(t) ==
    <<"\"">> \o [k \in 1..Len(t) |-> IF t[k] = "\n" THEN "\\n" ELSE t[k]]
           \o <<"\"">>

\* json.dump of one result dict: its keys in insertion order, each with the
\* text of its value.
json_dump(r) ==
    << <<"name">> \o json_str(<<r.name>>),
       <<"ip">> \o json_str(<<r.ip>>),
       <<"username">> \o (IF r.username = None THEN <<"null">>
                          ELSE json_str(<<Get(r.username)>>)),
       <<"port">> \o <<ToString(r.port)>>,
       <<"ok">> \o (IF r.ok THEN <<"true">> ELSE <<"false">>),
       <<"output">> \o json_str(r.output),
       <<"error">> \o (IF r.error = None THEN <<"null">>
                       ELSE json_str(Get(r.error))),
       <<"exit_status">> \o (IF r.exit_status = None THEN <<"null">>
                             ELSE <<ToString(Get(r.exit_status))>>) >>

\* Two runs over the same host that differ in the password and the key
\* only; a key file can fail to open only in a run that was given one.
InitTwoRuns ==
    /\ crHost \in HostPool
    /\ crDefaults \in [Runs -> AllDefaults]
    /\ crDefaults["A"].username = crDefaults["B"].username
    /\ crBehaviour \in Behaviours
    /\ crBehaviour.connect = "FileNotFoundError" =>
           \A x \in Runs : TruthyStr(crDefaults[x].key)
    /\ crPc = [x \in Runs |-> "call"]
    /\ crResult = [x \in Runs |-> None]
    /\ crPrinted = [x \in Runs |-> <<>>]
    /\ crJson = [x \in Runs |-> <<>>]

\* Run x: the worker calls run_parser_on_host and returns its result.
RunParser(x) ==
    /\ crPc[x] = "call"
    /\ crResult' = [crResult EXCEPT ![x] =
           Some(run_parser_on_host(crHost, crDefaults[x], crBehaviour))]
    /\ crPc' = [crPc EXCEPT ![x] = "report"]
    /\ UNCHANGED <<crHost, crDefaults, crBehaviour, crPrinted, crJson>>
    /\ UNCHANGED notTwoRuns

\* Run x: main prints the status lines of the result and saves the JSON.
Report(x) ==
    /\ crPc[x] = "report"
    /\ crPrinted' = [crPrinted EXCEPT ![x] = status_lines(Get(crResult[x]))]
    /\ crJson' = [crJson EXCEPT ![x] = <<json_dump(Get(crResult[x]))>>]
    /\ crPc' = [crPc EXCEPT ![x] = "done"]
    /\ UNCHANGED <<crHost, crDefaults, crBehaviour, crResult>>
    /\ UNCHANGED notTwoRuns

----------------------------------------------------------------------------
\* hosts_repo.py: HostsRepo.load, with normalize_name of models.py.
\*
\* A line is a text in which "=" and "," are tokens of their own.

\* What a line of the file may be.
RepoLinePool ==
    { <<"SINCE", "=", "202511052000", "\n">>,
      <<" ", "since", "=", " ", "202511052000", " ", "\n">>,
      <<"SINCE", "=", "\n">>,
      <<"PS1428", ",", "192.168.1.148", "\n">>,
      <<" ", "ps1234567", " ", ",", " ", "192.168.1.77", "\n">>,
      <<"LAPTOP", "\n">>,
      <<"\n">> }

\* The file at self.path: missing, or its lines.
RepoFiles ==
    {None} \cup { Some(f) :
                    f \in UNION { [1..n -> RepoLinePool] :
                                   n \in 0..MaxRepoLines } }

\* str.upper() of a token: the pool's tokens that hold a lower-case letter.
upper_token(tok) ==
    CASE tok = "since" -> "SINCE"
      [] tok = "ps1234567" -> "PS1234567"
      [] tok = "both" -> "BOTH"
      [] tok = "p" -> "P"
      [] tok = "s" -> "S"
      [] OTHER -> tok

\* str.upper()
upper(t) == [k \in 1..Len(t) |-> upper_token(t[k])]

\* normalize_name
normalize_name(name) == upper(strip(name))

\* line.split(sep, 1): the text before the first sep and the text after it.
split_once(t, sep) ==
    LET k == CHOOSE j \in 1..Len(t) :
                 t[j] = sep /\ \A h \in 1..(j - 1) : t[h] # sep
    IN  <<SubSeq(t, 1, k - 1), SubSeq(t, k + 1, Len(t))>>

\* sep in line
has(t, sep) == \E k \in 1..Len(t) : t[k] = sep

\* lines[0].upper().startswith("SINCE=")
is_since_line(line) ==
    Len(line) >= 2 /\ upper(line)[1] = "SINCE" /\ line[2] = "="

\* lines[0].split("=", 1)[1], were it not stripped.
since_value_unstripped(line) == split_once(line, "=")[2]

\* lines[0].split("=", 1)[1].strip()
since_value(line) == strip(split_once(line, "=")[2])

\* [x.strip() for x in f.readlines() if x.strip()]
RECURSIVE stripped_lines(_)
stripped_lines(f) ==
    IF f = <<>> THEN <<>>
    ELSE IF strip(Head(f)) # <<>>
    THEN <<strip(Head(f))>> \o stripped_lines(Tail(f))
    ELSE stripped_lines(Tail(f))

\* The cutoffs write is given.
WriteSinces ==
    { <<"202511052000">>, <<"0">>, <<>>, <<" ", "0">>, <<"0", " ">>,
      <<"0", "\n", "1">> }

\* The machines write is given: no comma, no newline and no surrounding
\* whitespace in a name or an address.
WriteMachines ==
    { [name |-> <<"PS1428">>, ip |-> <<"192.168.1.148">>],
      [name |-> <<"ps1234567">>, ip |-> <<"192.168.1.77">>],
      [name |-> <<"SINCE", "=", "X">>, ip |-> <<"192.168.1.10">>],
      [name |-> <<>>, ip |-> <<>>] }

WriteLists == UNION { [1..n -> WriteMachines] : n \in 0..MaxMachines }

\* f"{normalize_name(m.name)},{m.ip}\n" for each machine, one after another.
RECURSIVE machine_lines(_)
machine_lines(machines) ==
    IF machines = <<>> THEN <<>>
    ELSE normalize_name(Head(machines).name) \o <<",">>
             \o Head(machines).ip \o <<"\n">>
             \o machine_lines(Tail(machines))

\* What write would put in the file without its first f.write.
write_text_without_since(since, machines) == machine_lines(machines)

\* What write puts in the file.
write_text(since, machines) ==
    <<"SINCE", "=">> \o since \o <<"\n">> \o machine_lines(machines)

\* f.readlines(): the lines of a text, each with its newline.
RECURSIVE readlines(_, _)
readlines(text, line) ==
    IF text = <<>> THEN (IF line = <<>> THEN <<>> ELSE <<line>>)
    ELSE IF Head(text) = "\n"
    THEN <<Append(line, "\n")>> \o readlines(Tail(text), <<>>)
    ELSE readlines(Tail(text), Append(line, Head(text)))

\* load is called on a file that is there or not, or write is called first.
InitHostsRepo ==
    /\ \/ hrPc = "load" /\ hrFile \in RepoFiles
       \/ hrPc = "write" /\ hrFile = None
    /\ hrArgs = None
    /\ hrLines = <<>>
    /\ hrIdx = 0
    /\ hrSince = None
    /\ hrMachines = <<>>

\* write(since, machines): the file is written, or makedirs or open raises.
Write ==
    /\ hrPc = "write"
    /\ \E since \in WriteSinces, machines \in WriteLists :
          /\ hrArgs' = Some([since |-> since, machines |-> machines])
          /\ \/ /\ hrFile' = Some(readlines(write_text(since, machines),
                                              <<>>))
                /\ hrPc' = "load"
             \/ /\ hrFile' = hrFile
                /\ hrPc' = "raised"
    /\ UNCHANGED <<hrLines, hrIdx, hrSince, hrMachines>>
    /\ UNCHANGED notHostsRepo

\* load up to the SINCE line: a missing file or one with no line that is
\* not blank returns None, [].
LoadLines ==
    /\ hrPc = "load"
    /\ IF hrFile = None
       THEN hrPc' = "returned" /\ hrLines' = hrLines
       ELSE /\ hrLines' = stripped_lines(Get(hrFile))
            /\ hrPc' = IF hrLines' = <<>> THEN "returned" ELSE "since"
    /\ UNCHANGED <<hrArgs, hrFile, hrIdx, hrSince, hrMachines>>
    /\ UNCHANGED notHostsRepo

\* The test of lines[0].
LoadSince ==
    /\ hrPc = "since"
    /\ IF is_since_line(hrLines[1])
       THEN hrSince' = Some(since_value(hrLines[1])) /\ hrIdx' = 1
       ELSE hrSince' = None /\ hrIdx' = 0
    /\ hrPc' = "machines"
    /\ UNCHANGED <<hrArgs, hrFile, hrLines, hrMachines>>
    /\ UNCHANGED notHostsRepo

\* One round of the loop over lines[idx:], or the return after it.
LoadMachine ==
    /\ hrPc = "machines"
    /\ IF hrIdx < Len(hrLines)
       THEN LET line == hrLines[hrIdx + 1]
                pair == split_once(line, ",")
            IN  /\ hrIdx' = hrIdx + 1
                /\ hrMachines' =
                      IF has(line, ",")
                      THEN Append(hrMachines,
                                  [name |-> normalize_name(pair[1]),
                                   ip |-> strip(pair[2])])
                      ELSE hrMachines
                /\ hrPc' = hrPc
       ELSE hrPc' = "returned" /\ UNCHANGED <<hrIdx, hrMachines>>
    /\ UNCHANGED <<hrArgs, hrFile, hrLines, hrSince>>
    /\ UNCHANGED notHostsRepo

----------------------------------------------------------------------------
\* main.py: parse_since_input.
\*
\* Here a str is the sequence of its characters.

DigitChars == <<"0", "1", "2", "3", "4", "5", "6", "7", "8", "9">>

IsDigitChar(c) == \E k \in 1..10 : DigitChars[k] = c

DigitValue(c) == (CHOOSE k \in 1..10 : DigitChars[k] = c) - 1

\* t.isdigit()
isdigit(t) == t # <<>> /\ \A k \in 1..Len(t) : IsDigitChar(t[k])

\* int(t) of a run of digits.
RECURSIVE int(_)
int(t) ==
    IF t = <<>> THEN 0
    ELSE 10 * int(SubSeq(t, 1, Len(t) - 1)) + DigitValue(t[Len(t)])

\* The digits of n, padded with zeros to the width.
RECURSIVE digits(_, _)
digits(n, width) ==
    IF n < 10 /\ width <= 1 THEN <<DigitChars[n + 1]>>
    ELSE digits(n \div 10, width - 1) \o <<DigitChars[(n % 10) + 1]>>

\* candidates, each format a sequence of directives and literal characters.
candidates ==
    << <<"%Y", "-", "%m", "-", "%d", " ", "%H", ":", "%M">>,
       <<"%Y", "-", "%m", "-", "%d", "T", "%H", ":", "%M">>,
       <<"%Y", "/", "%m", "/", "%d", " ", "%H", ":", "%M">>,
       <<"%Y", "-", "%m", "-", "%d", " ", "%H">>,
       <<"%Y", "/", "%m", "/", "%d", " ", "%H">> >>

IsDirective(item) == item \in {"%Y", "%m", "%d", "%H", "%M"}

\* How many digits t starts with.
RECURSIVE digit_run(_)
digit_run(t) ==
    IF t # <<>> /\ IsDigitChar(Head(t)) THEN 1 + digit_run(Tail(t)) ELSE 0

\* How many whitespace characters t starts with.
RECURSIVE space_run(_)
space_run(t) ==
    IF t # <<>> /\ IsSpace(Head(t)) THEN 1 + space_run(Tail(t)) ELSE 0

\* Whether the digits are what the directive's pattern takes when a
\* character that is not a digit, or the end, follows them: %Y is four
\* digits, the others one or two digits in the directive's range.
directive_takes(item, run) ==
    LET n == int(run)
    IN  CASE item = "%Y" -> Len(run) = 4
          [] item = "%m" -> Len(run) \in {1, 2} /\ n \in 1..12
          [] item = "%d" -> Len(run) \in {1, 2} /\ n \in 1..31
          [] item = "%H" -> Len(run) \in {1, 2} /\ n \in 0..23
          [] item = "%M" -> Len(run) \in {1, 2} /\ n \in 0..59

\* The fields strptime's pattern for the format finds in t, or None when t
\* does not match: a space of the format takes a run of whitespace, a letter
\* takes itself in either case, any other character takes itself.
RECURSIVE strptime_fields(_, _, _)
strptime_fields(t, fmt, found) ==
    IF fmt = <<>> THEN (IF t = <<>> THEN Some(found) ELSE None)
    ELSE LET item == Head(fmt)
         IN  IF IsDirective(item)
             THEN LET n == digit_run(t)
                      run == SubSeq(t, 1, n)
                  IN  IF n > 0 /\ directive_takes(item, run)
                      THEN strptime_fields(SubSeq(t, n + 1, Len(t)),
                                           Tail(fmt), Append(found, int(run)))
                      ELSE None
             ELSE IF item = " "
             THEN LET n == space_run(t)
                  IN  IF n > 0
                      THEN strptime_fields(SubSeq(t, n + 1, Len(t)),
                                           Tail(fmt), found)
                      ELSE None
             ELSE IF t # <<>> /\ (Head(t) = item
                                   \/ (item = "T" /\ Head(t) = "t"))
             THEN strptime_fields(Tail(t), Tail(fmt), found)
             ELSE None

IsLeapYear(y) == (y % 4 = 0 /\ y % 100 # 0) \/ y % 400 = 0

DaysInMonth(y, m) ==
    IF m = 2 THEN (IF IsLeapYear(y) THEN 29 ELSE 28)
    ELSE IF m \in {4, 6, 9, 11} THEN 30 ELSE 31

\* datetime.strptime(t, fmt): the datetime, or None for ValueError.  Year 0
\* and a day the month does not have are ValueError.
strptime(t, fmt) ==
    LET f == strptime_fields(t, fmt, <<>>)
    IN  IF f = None THEN None
        ELSE LET v == Get(f)
             IN  IF v[1] >= 1 /\ v[3] <= DaysInMonth(v[1], v[2])
                 THEN Some([year |-> v[1], month |-> v[2], day |-> v[3],
                            hour |-> v[4],
                            minute |-> IF Len(v) >= 5 THEN v[5] ELSE 0])
                 ELSE None

\* dt.strftime("%Y%m%d%H%M"): the C library's %Y writes the year in four
\* digits on some platforms and without leading zeros on others.
strftime(dt, pads_year) ==
    digits(dt.year, IF pads_year THEN 4 ELSE 1) \o digits(dt.month, 2)
        \o digits(dt.day, 2) \o digits(dt.hour, 2) \o digits(dt.minute, 2)

\* What the user may type, piece by piece.
YearTexts ==
    { <<"2", "0", "2", "5">>, <<"0", "9", "9", "9">>, <<"2", "5">> }

MonthTexts == { <<"1", "1">>, <<"2">>, <<"1", "3">> }

DayTexts == { <<"0", "5">>, <<"3", "0">> }

DateSeparators == { "-", "/" }

GapTexts == { <<" ">>, <<" ", " ">>, <<"T">>, <<"t">> }

HourTexts == { <<"2", "0">>, <<"9">>, <<"2", "4">> }

MinuteTexts ==
    { <<>>, <<":", "0", "0">>, <<":", "5">>, <<":", "6", "0">>,
      <<":", "0", "0", ":", "0", "0">> }

DateTimeTexts ==
    { y \o <<s1>> \o m \o <<s2>> \o d \o g \o h \o mi :
        y \in YearTexts, s1 \in DateSeparators, m \in MonthTexts,
        s2 \in DateSeparators, d \in DayTexts, g \in GapTexts,
        h \in HourTexts, mi \in MinuteTexts }

OtherTexts ==
    { <<>>, <<" ", "\n">>,
      <<"2", "0", "2", "5", "1", "1", "0", "5", "2", "0", "0", "0">>,
      <<"9", "9", "9", "9", "9", "9", "9", "9", "9", "9", "9", "9">>,
      <<"2", "0", "2", "5", "1", "1", "0", "5", "2", "0">>,
      <<"2", "0", "2", "5", "1", "1", "0", "5">>,
      <<"2", "0", "2", "5", "1", "1", "0", "5", "2", "0", "0", "x">>,
      <<"n", "o", "w">> }

SinceInputs ==
    { pre \o t \o <<"\n">> :
        pre \in {<<>>, <<" ">>}, t \in DateTimeTexts \cup OtherTexts }

InitSince ==
    /\ psInput \in SinceInputs
    /\ psPadsYear \in BOOLEAN
    /\ psPc = "call"
    /\ psT = <<>>
    /\ psFmt = 1
    /\ psRet = None

\* parse_since_input up to the candidates: blank gives "0", twelve digits
\* are returned as they are and ten digits with "00" after them.
SinceDigits ==
    /\ psPc = "call"
    /\ LET t == strip(psInput)
       IN  /\ psT' = t
           /\ IF t = <<>>
              THEN psRet' = Some(<<"0">>) /\ psPc' = "returned"
              ELSE IF isdigit(t) /\ Len(t) = 12
              THEN psRet' = Some(t) /\ psPc' = "returned"
              ELSE IF isdigit(t) /\ Len(t) = 10
              THEN psRet' = Some(t \o <<"0", "0">>) /\ psPc' = "returned"
              ELSE psRet' = psRet /\ psPc' = "formats"
    /\ UNCHANGED <<psInput, psPadsYear, psFmt>>
    /\ UNCHANGED notSince

\* One round of the loop over candidates: the rendering is returned, or
\* ValueError is caught and the loop goes on.
TryFormat ==
    /\ psPc = "formats"
    /\ psFmt <= Len(candidates)
    /\ LET dt == strptime(psT, candidates[psFmt])
       IN  IF dt # None
           THEN /\ psRet' = Some(strftime(Get(dt), psPadsYear))
                /\ psPc' = "returned"
                /\ psFmt' = psFmt
           ELSE /\ psFmt' = psFmt + 1
                /\ UNCHANGED <<psRet, psPc>>
    /\ UNCHANGED <<psInput, psPadsYear, psT>>
    /\ UNCHANGED notSince

\* No candidate fits: the warning is printed and "0" returned.
NoFormat ==
    /\ psPc = "formats"
    /\ psFmt > Len(candidates)
    /\ psRet' = Some(<<"0">>)
    /\ psPc' = "returned"
    /\ UNCHANGED <<psInput, psPadsYear, psT, psFmt>>
    /\ UNCHANGED notSince

----------------------------------------------------------------------------
\* overnight_testing.py: start_one and stop_one.

\* The interrupt control byte "\x03".
ETX == "\\x03"

\* MODEL_START_SEQUENCES["PS1"], each step a text.
START_SEQUENCE_PS1 == << <<"screen -x">>, <<"16">>, <<"14">> >>

\* MODEL_STOP_SEQUENCES["PS1"], each step a text.
STOP_SEQUENCE_PS1 == << <<"screen -x">>, <<>>, <<"q">>, <<ETX>> >>

Sequence(op) == IF op = "start" THEN START_SEQUENCE_PS1 ELSE STOP_SEQUENCE_PS1

\* What _send_sequence hands to channel.send for one step.
Wire(cmd) == IF cmd = <<ETX>> THEN cmd ELSE cmd \o <<"\n">>

\* attach_delay=2.0, in tenths of a second.
attach_delay == 20

\* per_step_delay, in tenths of a second: 1.0 by default, as start_one
\* leaves it, and the 0.7 stop_one passes.
per_step_delay(op) == IF op = "start" THEN 10 ELSE 7

\* "screen -x" in cmd
has_screen_x(cmd) == \E k \in 1..Len(cmd) : cmd[k] = "screen -x"

\* The sleep after a step, were there none.
no_delay(i, cmd, op) == 0

\* The sleep after step i (counted from 1) of _send_sequence.
step_delay(i, cmd, op) ==
    IF i = 1 /\ has_screen_x(cmd) THEN attach_delay ELSE per_step_delay(op)

\* When a time.sleep(d) that starts at clock t may return.
Wakes(t, d) == (t + d)..(t + d + MaxOversleep)

\* except Exception, were it except paramiko.SSHException.
except_SSHException(cls) == IsSSHException(cls)

\* except Exception as e
except_Exception(cls) == IsException(cls)

\* What a raise of class cls by the call named in where leaves of start_one
\* or stop_one on its way to the finally clause: False to return when the
\* except clause catches it, the exception on its way out otherwise.
Raised(cls, where) ==
    [ret |-> IF except_Exception(cls) THEN Some(FALSE) ELSE None,
     exc |-> Some([cls |-> cls, where |-> where,
                   caught |-> except_Exception(cls)])]

MachinePool ==
    { [name |-> "PS1428", ip |-> "192.168.1.148"],
      [name |-> "PS1234567", ip |-> "192.168.1.77"],
      [name |-> "LAPTOP", ip |-> "192.168.1.10"] }

InitOvernight ==
    /\ otPc = "idle"
    /\ otOp = "none"
    /\ otMachine \in MachinePool
    /\ otClient = None
    /\ otChannel = None
    /\ otConn = "none"
    /\ otChan = "none"
    /\ otStep = 0
    /\ otSent = <<>>
    /\ otRet = None
    /\ otCalls = 0
    /\ otClock = 0
    /\ otSentAt = <<>>
    /\ otExc = None

\* A caller enters start_one or stop_one: client = None, channel = None.
Call ==
    /\ otPc = "idle"
    /\ otCalls < MaxCalls
    /\ otOp' \in {"start", "stop"}
    /\ otCalls' = otCalls + 1
    /\ otPc' = "connect"
    /\ otClient' = None
    /\ otChannel' = None
    /\ otConn' = "none"
    /\ otChan' = "none"
    /\ otStep' = 0
    /\ otSent' = <<>>
    /\ otRet' = None
    /\ otSentAt' = <<>>
    /\ otExc' = None
    /\ UNCHANGED <<otMachine, otClock>>
    /\ UNCHANGED notOvernight

\* _open_shell: the client is created and client.connect returns or raises;
\* a raise lands in the caller's except clause, which returns False.
OpenShellConnect ==
    /\ otPc = "connect"
    /\ \/ otConn' = "open" /\ otPc' = "shell" /\ UNCHANGED <<otRet, otExc>>
       \/ \E f \in ConnectFailures :
             /\ otConn' = IF f.transport THEN "half" ELSE "unconnected"
             /\ otPc' = "finally"
             /\ otRet' = Raised(f.cls, "connect").ret
             /\ otExc' = Raised(f.cls, "connect").exc
    /\ UNCHANGED <<otOp, otMachine, otClient, otChannel, otChan, otStep,
                   otSent, otCalls, otClock, otSentAt>>
    /\ UNCHANGED notOvernight

\* _open_shell: client.invoke_shell() returns, and after a second the pair
\* is bound to the caller's client and channel; or it raises.
InvokeShell ==
    /\ otPc = "shell"
    /\ \/ /\ otChan' = "open"
          /\ otClient' = Some("client")
          /\ otChannel' = Some("channel")
          /\ otPc' = "send"
          /\ otClock' \in Wakes(otClock, 10)
          /\ UNCHANGED <<otRet, otExc>>
       \/ /\ otPc' = "finally"
          /\ otRet' = Raised("SSHException", "invoke_shell").ret
          /\ otExc' = Raised("SSHException", "invoke_shell").exc
          /\ UNCHANGED <<otChan, otClient, otChannel, otClock>>
    /\ UNCHANGED <<otOp, otMachine, otConn, otStep, otSent, otCalls,
                   otSentAt>>
    /\ UNCHANGED notOvernight

\* One round of the loop of _send_sequence: channel.send and the sleep after
\* it; after the last round the caller returns True.  A send that raises
\* lands in the caller's except clause.
Send ==
    /\ otPc = "send"
    /\ LET sequence == Sequence(otOp)
           i == otStep + 1
       IN  \/ /\ otSent' = Append(otSent, Wire(sequence[i]))
              /\ otSentAt' = Append(otSentAt, otClock)
              /\ otClock' \in
                    Wakes(otClock, step_delay(i, sequence[i], otOp))
              /\ otStep' = i
              /\ IF i = Len(sequence)
                 THEN otPc' = "finally" /\ otRet' = Some(TRUE)
                 ELSE otPc' = "send" /\ otRet' = otRet
              /\ otExc' = otExc
           \/ \E f \in RunFailures :
                 /\ otPc' = "finally"
                 /\ otRet' = Raised(f.cls, "send").ret
                 /\ otExc' = Raised(f.cls, "send").exc
                 /\ UNCHANGED <<otSent, otStep, otSentAt, otClock>>
    /\ UNCHANGED <<otOp, otMachine, otClient, otChannel, otConn, otChan,
                   otCalls>>
    /\ UNCHANGED notOvernight

\* The finally clause: channel.close() if channel, client.close() if client.
CloseAll ==
    /\ otPc = "finally"
    /\ otChan' = IF otChannel # None THEN "closed" ELSE otChan
    /\ otConn' = IF otClient # None THEN "closed" ELSE otConn
    /\ otPc' = "idle"
    /\ UNCHANGED <<otOp, otMachine, otClient, otChannel, otStep, otSent,
                   otRet, otCalls, otClock, otSentAt, otExc>>
    /\ UNCHANGED notOvernight

----------------------------------------------------------------------------
\* remote_error_log_parser.py: main and ssh_run.

\* What stdout.read().decode() can give.
RemoteOutputs ==
    { <<>>, <<"\n">>, <<"3 8110 2025-11-05T20:13:00-05:00", "\n">> }

DeviceLists == UNION { [1..n -> MachinePool] : n \in 0..MaxDevices }

\* What prompt_model_choice returns.
ModelChoices == {"PS1", "PS2", "BOTH"}

\* The characters of a machine name.
chars(name) ==
    CASE name = "PS1428" -> <<"P", "S", "1", "4", "2", "8">>
      [] name = "PS1234567" ->
             <<"P", "S", "1", "2", "3", "4", "5", "6", "7">>
      [] name = "LAPTOP" -> <<"L", "A", "P", "T", "O", "P">>
      [] name = "ps1428" -> <<"p", "s", "1", "4", "2", "8">>

\* re.match of ^PS\d{n}$ on a text of characters.
PS_RE(cs, n) ==
    /\ Len(cs) = n + 2
    /\ cs[1] = "P"
    /\ cs[2] = "S"
    /\ \A k \in 3..(n + 2) : IsDigitChar(cs[k])

PS1_RE(cs) == PS_RE(cs, 4)

PS2_RE(cs) == PS_RE(cs, 7)

is_ps1_name(name) == PS1_RE(normalize_name(chars(name)))

is_ps2_name(name) == PS2_RE(normalize_name(chars(name)))

\* filter_machines_for_choice keeps the machine of this name.
filter_machines_for_choice(name, choice) ==
    CASE choice = "PS1" -> is_ps1_name(name)
      [] choice = "PS2" -> is_ps2_name(name)
      [] choice = "BOTH" -> is_ps1_name(name) \/ is_ps2_name(name)
      [] OTHER -> FALSE

InitRemote ==
    /\ rpPc = "launch"
    /\ rpArgv = <<>>
    /\ rpDevices \in DeviceLists
    /\ rpIdx = 0
    /\ rpConn = "none"
    /\ rpOut = <<>>
    /\ rpRet = None
    /\ rpOpened = <<>>

\* run_log_parser(model_choice) of main.py: nothing when the script is not
\* found, the script run with --model and the choice otherwise.  The choice
\* is one prompt_model_choice returned, so strip().upper() leaves it as is.
\* The script's main reads no argument.
RunLogParser ==
    /\ rpPc = "launch"
    /\ \E model_choice \in ModelChoices, exists \in BOOLEAN :
          IF exists
          THEN /\ rpArgv' = <<"--model", model_choice>>
               /\ rpPc' = "loop"
          ELSE /\ rpArgv' = rpArgv
               /\ rpPc' = "done"
    /\ UNCHANGED <<rpDevices, rpIdx, rpConn, rpOut, rpRet, rpOpened>>
    /\ UNCHANGED notRemote

\* The for loop of main calls ssh_run for the next device, or ends.
NextDevice ==
    /\ rpPc = "loop"
    /\ IF rpIdx < Len(rpDevices)
       THEN /\ rpIdx' = rpIdx + 1
            /\ rpPc' = "connect"
            /\ rpConn' = "unconnected"
            /\ rpOut' = <<>>
            /\ rpRet' = None
       ELSE /\ rpPc' = "done"
            /\ UNCHANGED <<rpIdx, rpConn, rpOut, rpRet>>
    /\ UNCHANGED <<rpDevices, rpOpened, rpArgv>>
    /\ UNCHANGED notRemote

\* ssh_run: client.connect returns, or raises and ssh_run returns None.
SshRunConnect ==
    /\ rpPc = "connect"
    /\ rpOpened' = Append(rpOpened, rpIdx)
    /\ \/ rpConn' = "open" /\ rpPc' = "exec"
       \/ \E f \in ConnectFailures :
             /\ rpConn' = IF f.transport THEN "half" ELSE "unconnected"
             /\ rpPc' = "loop"
    /\ UNCHANGED <<rpDevices, rpIdx, rpOut, rpRet, rpArgv>>
    /\ UNCHANGED notRemote

\* ssh_run: client.exec_command returns, or raises out of ssh_run and main.
SshRunExec ==
    /\ rpPc = "exec"
    /\ \/ rpPc' = "read"
       \/ rpPc' = "raised"
    /\ UNCHANGED <<rpDevices, rpIdx, rpConn, rpOut, rpRet, rpOpened,
                   rpArgv>>
    /\ UNCHANGED notRemote

\* ssh_run: stdout.read().decode() returns, or raises out of ssh_run and main.
SshRunRead ==
    /\ rpPc = "read"
    /\ \/ rpOut' \in RemoteOutputs /\ rpPc' = "close"
       \/ rpPc' = "raised" /\ rpOut' = rpOut
    /\ UNCHANGED <<rpDevices, rpIdx, rpConn, rpRet, rpOpened, rpArgv>>
    /\ UNCHANGED notRemote

\* ssh_run: client.close() and the return of the stripped output or None.
SshRunClose ==
    /\ rpPc = "close"
    /\ rpConn' = "closed"
    /\ rpRet' = IF strip(rpOut) # <<>> THEN Some(strip(rpOut)) ELSE None
    /\ rpPc' = "loop"
    /\ UNCHANGED <<rpDevices, rpIdx, rpOut, rpOpened, rpArgv>>
    /\ UNCHANGED notRemote

----------------------------------------------------------------------------
\* The specifications.  Each runs one script; the others are not started.

CollectOff ==
    /\ hosts = <<>>
    /\ defaults = [username |-> None, port |-> 22]
    /\ concurrency = 0
    /\ at = [kind |-> "absent", when |-> 0]
    /\ cutoff = None
    /\ parser_text = None
    /\ now = NowStart
    /\ delta = None
    /\ slept = FALSE
    /\ pc = "off"
    /\ exitCode = None
    /\ nsubmitted = 0
    /\ work_queue = <<>>
    /\ idle_semaphore = 0
    /\ num_threads = 0
    /\ thr = <<>>
    /\ future = <<>>
    /\ collected = {}
    /\ results = <<>>
    /\ saved = None
    /\ summary = None
    /\ clients = <<>>
    /\ attempts = <<>>

ReadHostsOff ==
    /\ rhFile = <<>>
    /\ rhLineNo = 0
    /\ rhHosts = <<>>
    /\ rhPc = "off"

TwoRunsOff ==
    /\ crHost = None
    /\ crDefaults = <<>>
    /\ crBehaviour = None
    /\ crPc = <<>>
    /\ crResult = <<>>
    /\ crPrinted = <<>>
    /\ crJson = <<>>

HostsRepoOff ==
    /\ hrArgs = None
    /\ hrFile = None
    /\ hrPc = "off"
    /\ hrLines = <<>>
    /\ hrIdx = 0
    /\ hrSince = None
    /\ hrMachines = <<>>

SinceOff ==
    /\ psInput = <<>>
    /\ psPadsYear = FALSE
    /\ psPc = "off"
    /\ psT = <<>>
    /\ psFmt = 1
    /\ psRet = None

OvernightOff ==
    /\ otPc = "off"
    /\ otOp = "none"
    /\ otMachine = [name |-> "", ip |-> ""]
    /\ otClient = None
    /\ otChannel = None
    /\ otConn = "none"
    /\ otChan = "none"
    /\ otStep = 0
    /\ otSent = <<>>
    /\ otRet = None
    /\ otCalls = 0
    /\ otClock = 0
    /\ otSentAt = <<>>
    /\ otExc = None

RemoteOff ==
    /\ rpPc = "off"
    /\ rpDevices = <<>>
    /\ rpIdx = 0
    /\ rpConn = "none"
    /\ rpOut = <<>>
    /\ rpRet = None
    /\ rpOpened = <<>>
    /\ rpArgv = <<>>

----------------------------------------------------------------------------
\* overnight_testing.py: the filter of start_bulk and stop_bulk.

\* choice = model_choice.upper().strip()
bulk_choice(model_choice) == strip(upper(model_choice))

\* The strict selection filter: the machine is passed over.
skipped_by_choice(name, choice) ==
    \/ choice = <<"PS1">> /\ ~is_ps1_name(name)
    \/ choice = <<"PS2">> /\ ~is_ps2_name(name)
    \/ choice = <<"BOTH">> /\ ~(is_ps1_name(name) \/ is_ps2_name(name))

\* The loop body reaches self.start_one(m) / self.stop_one(m): the machine
\* passed the filter and is not a PS2 machine.
calls_one(name, model_choice) ==
    /\ ~skipped_by_choice(name, bulk_choice(model_choice))
    /\ ~is_ps2_name(name)

\* The machines start_bulk and stop_bulk are given.
BulkPool == MachinePool \cup {[name |-> "ps1428", ip |-> "192.168.1.149"]}

BulkLists == UNION { [1..n -> BulkPool] : n \in 0..MaxMachines }

\* The values of model_choice start_bulk and stop_bulk are given.
BulkChoices ==
    { <<"PS1">>, <<"PS2">>, <<"BOTH">>, <<"both", " ">>, <<"ALL">>, <<>> }

InitBulk ==
    /\ bkPc = "loop"
    /\ bkOp \in {"start", "stop"}
    /\ bkChoice \in BulkChoices
    /\ bkMachines \in BulkLists
    /\ bkIdx = 0
    /\ bkCalled = <<>>

\* One round of the for loop of start_bulk / stop_bulk, start_one / stop_one
\* and the shell it opens included; or the end of the loop.
BulkNext ==
    /\ bkPc = "loop"
    /\ IF bkIdx < Len(bkMachines)
       THEN LET m == bkMachines[bkIdx + 1]
            IN  /\ bkCalled' = IF calls_one(m.name, bkChoice)
                               THEN Append(bkCalled, m)
                               ELSE bkCalled
                /\ bkIdx' = bkIdx + 1
                /\ bkPc' = bkPc
       ELSE /\ bkPc' = "returned"
            /\ UNCHANGED <<bkIdx, bkCalled>>
    /\ UNCHANGED <<bkOp, bkChoice, bkMachines>>
    /\ UNCHANGED notBulk

----------------------------------------------------------------------------
\* main.py: main.

\* What os.getenv gives for SSH_USERNAME and SSH_PASSWORD.
EnvValues == {None, Some(""), Some("pi")}

\* What parse_since_input returns.
SinceValues == {<<"0">>, <<"202511052000">>}

\* What the user types for the duration, stripped.
DurationTexts == {"2", "0", "-1", "abc", "nan", "inf"}

\* float(hours): a float, None for the ValueError.
float(hours) ==
    CASE hours = "2" -> Some([kind |-> "finite", value |-> 2])
      [] hours = "0" -> Some([kind |-> "finite", value |-> 0])
      [] hours = "-1" -> Some([kind |-> "finite", value |-> -1])
      [] hours = "nan" -> Some([kind |-> "nan", value |-> 0])
      [] hours = "inf" -> Some([kind |-> "inf", value |-> 0])
      [] OTHER -> None

\* h <= 0 of a float: False for nan and for inf.
le_zero(h) == h.kind = "finite" /\ h.value <= 0

\* prompt_duration_hours: the float, None when it cannot be read or is <= 0.
prompt_duration_hours(hours) ==
    IF float(hours) = None \/ le_zero(Get(float(hours)))
    THEN None
    ELSE float(hours)

\* int(wait_seconds) raises: OverflowError for inf, ValueError for nan.
int_raises(h) == h.kind \in {"nan", "inf"}

\* How run_scan_script can go: the script is not found, the subprocess
\* fails, or it ends with status 0.
ScanOutcomes == {"missing", "failed", "ok"}

MachineLists == UNION { [1..n -> MachinePool] : n \in 0..MaxMachines }

\* What repo.load() can return once the scan wrote hosts.txt.
Loads ==
    { [since |-> sf, machines |-> ms] :
        sf \in {None} \cup { Some(x) : x \in SinceValues },
        ms \in MachineLists }

\* selected = filter_machines_for_choice(machines, model_choice)
selected(machines, choice) ==
    LET Keep(m) == filter_machines_for_choice(m.name, choice)
    IN  SelectSeq(machines, Keep)

\* ps1_selected = [(n, ip) for n, ip in selected if is_ps1_name(n)]
ps1_selected(sel) ==
    LET Keep(m) == is_ps1_name(m.name)
    IN  SelectSeq(sel, Keep)

\* The condition both bulk calls of main stand under.
main_runs_ps1_never(choice, ps1) == FALSE

main_runs_ps1(choice, ps1) == choice \in {"PS1", "BOTH"} /\ ps1 # <<>>

\* One entry of the log of what main did.
Event(ev, name, ok) == [ev |-> ev, name |-> name, ok |-> ok]

InitWorkflow ==
    /\ mnPc = "env"
    /\ mnCreds = None
    /\ mnChoice = None
    /\ mnSince = None
    /\ mnHours = None
    /\ mnScan = None
    /\ mnLoaded = None
    /\ mnPs1 = <<>>
    /\ mnIdx = 0
    /\ mnLog = <<>>

\* load_dotenv and the two getenv: main returns when either is missing.
LoadDotenv ==
    /\ mnPc = "env"
    /\ \E ps_user \in EnvValues, ps_pass \in EnvValues :
          /\ mnCreds' = Some([username |-> ps_user, password |-> ps_pass])
          /\ mnPc' = IF ~TruthyStr(ps_user) \/ ~TruthyStr(ps_pass)
                     THEN "returned"
                     ELSE "prompt"
    /\ UNCHANGED <<mnChoice, mnSince, mnHours, mnScan, mnLoaded, mnPs1,
                   mnIdx, mnLog>>
    /\ UNCHANGED notWorkflow

\* The three prompts: the model choice, the cutoff and the duration; main
\* returns when the duration is not accepted.
Prompts ==
    /\ mnPc = "prompt"
    /\ \E model_choice \in ModelChoices, since \in SinceValues,
          hours \in DurationTexts :
          /\ mnChoice' = Some(model_choice)
          /\ mnSince' = Some(since)
          /\ mnHours' = prompt_duration_hours(hours)
          /\ mnPc' = IF prompt_duration_hours(hours) = None
                     THEN "returned"
                     ELSE "scan"
    /\ UNCHANGED <<mnCreds, mnScan, mnLoaded, mnPs1, mnIdx, mnLog>>
    /\ UNCHANGED notWorkflow

\* STEP 1: run_scan_script(since); main returns unless it returned True.
RunScanScript ==
    /\ mnPc = "scan"
    /\ \E outcome \in ScanOutcomes :
          /\ mnScan' = Some(outcome)
          /\ mnPc' = IF outcome = "ok" THEN "load" ELSE "returned"
    /\ UNCHANGED <<mnCreds, mnChoice, mnSince, mnHours, mnLoaded, mnPs1,
                   mnIdx, mnLog>>
    /\ UNCHANGED notWorkflow

\* STEP 2: repo.load(), the three guards after it and the selection.
LoadAndSelect ==
    /\ mnPc = "load"
    /\ \E loaded \in Loads :
          LET sel == selected(loaded.machines, Get(mnChoice))
          IN  /\ mnLoaded' = Some(loaded)
              /\ IF \/ loaded.machines = <<>>
                    \/ loaded.since # mnSince
                    \/ sel = <<>>
                 THEN mnPc' = "returned" /\ mnPs1' = mnPs1
                 ELSE mnPc' = "start" /\ mnPs1' = ps1_selected(sel)
    /\ UNCHANGED <<mnCreds, mnChoice, mnSince, mnHours, mnScan, mnIdx,
                   mnLog>>
    /\ UNCHANGED notWorkflow

\* The bulk call of the phase is over: it was not made, or its loop has
\* passed every machine.
BulkOver == ~main_runs_ps1(Get(mnChoice), mnPs1) \/ mnIdx = Len(mnPs1)

\* One round of the loop of start_bulk / stop_bulk as main calls it, with
\* ps1_selected and "PS1": start_one / stop_one runs for the machine and
\* returns True or False, which the loop ignores.
BulkRound(phase) ==
    /\ mnPc = phase
    /\ ~BulkOver
    /\ LET m == mnPs1[mnIdx + 1]
       IN  IF calls_one(m.name, <<"PS1">>)
           THEN \E ok \in BOOLEAN :
                   mnLog' = Append(mnLog, Event(phase, m.name, ok))
           ELSE mnLog' = mnLog
    /\ mnIdx' = mnIdx + 1
    /\ UNCHANGED <<mnPc, mnCreds, mnChoice, mnSince, mnHours, mnScan,
                   mnLoaded, mnPs1>>
    /\ UNCHANGED notWorkflow

\* STEP 3: start_tests_bulk(ps1_selected, creds, "PS1")
StartTestsBulk == BulkRound("start")

\* STEP 4: the line that prints int(wait_seconds), which ends main when the
\* duration is inf or nan, and the call of time.sleep(wait_seconds).
BeginWait ==
    /\ mnPc = "start"
    /\ BulkOver
    /\ IF int_raises(Get(mnHours))
       THEN mnPc' = "raised" /\ mnLog' = mnLog
       ELSE /\ mnPc' = "sleep"
            /\ mnLog' = Append(mnLog, Event("wait_begin", "", TRUE))
    /\ mnIdx' = 0
    /\ UNCHANGED <<mnCreds, mnChoice, mnSince, mnHours, mnScan, mnLoaded,
                   mnPs1>>
    /\ UNCHANGED notWorkflow

\* time.sleep(wait_seconds) returns.
EndWait ==
    /\ mnPc = "sleep"
    /\ mnPc' = "stop"
    /\ mnLog' = Append(mnLog, Event("wait_end", "", TRUE))
    /\ UNCHANGED <<mnCreds, mnChoice, mnSince, mnHours, mnScan, mnLoaded,
                   mnPs1, mnIdx>>
    /\ UNCHANGED notWorkflow

\* STEP 5: stop_tests_bulk(ps1_selected, creds, "PS1")
StopTestsBulk == BulkRound("stop")

\* STEP 6: run_log_parser(model_choice)
CollectLogs ==
    /\ mnPc = "stop"
    /\ BulkOver
    /\ mnPc' = "done"
    /\ mnLog' = Append(mnLog, Event("collect", "", TRUE))
    /\ UNCHANGED <<mnCreds, mnChoice, mnSince, mnHours, mnScan, mnLoaded,
                   mnPs1, mnIdx>>
    /\ UNCHANGED notWorkflow

WorkflowOff ==
    /\ mnPc = "off"
    /\ mnCreds = None
    /\ mnChoice = None
    /\ mnSince = None
    /\ mnHours = None
    /\ mnScan = None
    /\ mnLoaded = None
    /\ mnPs1 = <<>>
    /\ mnIdx = 0
    /\ mnLog = <<>>

BulkOff ==
    /\ bkPc = "off"
    /\ bkOp = "none"
    /\ bkChoice = <<>>
    /\ bkMachines = <<>>
    /\ bkIdx = 0
    /\ bkCalled = <<>>

\* The scripts a specification does not run.
Off(started) ==
    /\ IF "collect" \in started THEN TRUE ELSE CollectOff
    /\ IF "overnight" \in started THEN TRUE ELSE OvernightOff
    /\ IF "remote" \in started THEN TRUE ELSE RemoteOff
    /\ IF "read_hosts" \in started THEN TRUE ELSE ReadHostsOff
    /\ IF "two_runs" \in started THEN TRUE ELSE TwoRunsOff
    /\ IF "hosts_repo" \in started THEN TRUE ELSE HostsRepoOff
    /\ IF "since" \in started THEN TRUE ELSE SinceOff
    /\ IF "workflow" \in started THEN TRUE ELSE WorkflowOff
    /\ IF "bulk" \in started THEN TRUE ELSE BulkOff

Init == InitCollect /\ Off({"collect"})

Next ==
    \/ Prepare
    \/ ScheduleGate
    \/ Tick
    \/ Sleep
    \/ CreatePool
    \/ Submit
    \/ \E i \in Hosts : Collect(i)
    \/ Finish
    \/ Begin
    \/ \E i \in Hosts : Connect(i)
    \/ \E i \in Hosts : Exec(i)
    \/ \E i \in Hosts : Finally(i)
    \/ \E i \in Hosts : Return(i)

Spec == Init /\ [][Next]_vars

\* The threads of the process are scheduled fairly: the main thread keeps
\* running while it has a step to take, an idle worker thread takes a queued
\* work item, and a thread inside run_parser_on_host goes on to its next
\* step (every blocking call it makes returns or raises).
Fairness ==
    /\ WF_vars(Prepare \/ ScheduleGate \/ Sleep \/ CreatePool \/ Submit \/ Finish)
    /\ \A i \in 1..MaxHosts : WF_vars(i \in Hosts /\ Collect(i))
    /\ WF_vars(Begin)
    /\ \A i \in 1..MaxHosts :
          WF_vars(i \in Hosts
                  /\ (Connect(i) \/ Exec(i) \/ Finally(i) \/ Return(i)))

FairSpec == Spec /\ Fairness

InitO == InitOvernight /\ Off({"overnight"})

NextO ==
    \/ Call
    \/ OpenShellConnect
    \/ InvokeShell
    \/ Send
    \/ CloseAll

SpecOvernight == InitO /\ [][NextO]_vars

InitR == InitRemote /\ Off({"remote"})

NextR ==
    \/ RunLogParser
    \/ NextDevice
    \/ SshRunConnect
    \/ SshRunExec
    \/ SshRunRead
    \/ SshRunClose

SpecRemote == InitR /\ [][NextR]_vars

InitH == InitReadHosts /\ Off({"read_hosts"})

NextH == ReadLine

SpecReadHosts == InitH /\ [][NextH]_vars

InitT == InitTwoRuns /\ Off({"two_runs"})

NextT ==
    \/ \E x \in Runs : RunParser(x)
    \/ \E x \in Runs : Report(x)

SpecTwoRuns == InitT /\ [][NextT]_vars

InitL == InitHostsRepo /\ Off({"hosts_repo"})

NextL ==
    \/ Write
    \/ LoadLines
    \/ LoadSince
    \/ LoadMachine

SpecHostsRepo == InitL /\ [][NextL]_vars

InitS == InitSince /\ Off({"since"})

NextS ==
    \/ SinceDigits
    \/ TryFormat
    \/ NoFormat

SpecSince == InitS /\ [][NextS]_vars

InitM == InitWorkflow /\ Off({"workflow"})

NextM ==
    \/ LoadDotenv
    \/ Prompts
    \/ RunScanScript
    \/ LoadAndSelect
    \/ StartTestsBulk
    \/ BeginWait
    \/ EndWait
    \/ StopTestsBulk
    \/ CollectLogs

SpecMain == InitM /\ [][NextM]_vars

InitB == InitBulk /\ Off({"bulk"})

NextB == BulkNext

SpecBulk == InitB /\ [][NextB]_vars

----------------------------------------------------------------------------
\* Properties of collect_logs.py (Spec, FairSpec).

Finished(i) == future[i].state = "finished"

\* The result run_parser_on_host returned for host i.
ResultOf(i) == Get(future[i].result)

\* The username run_parser_on_host resolves for host i.
UsernameOf(i) ==
    IF TruthyStr(hosts[i].username) THEN hosts[i].username
    ELSE defaults.username

\* C1: when the dispatch in main has finished, results holds one result per
\* host entry of the list, duplicate addresses counted separately, whatever
\* the hosts' outcomes were.
C1_OneResultPerHost ==
    pc = "done" =>
        /\ Len(results) = Len(hosts)
        /\ \A h \in HostPool :
              Cardinality({ k \in 1..Len(results) :
                              results[k].name = h.name /\ results[k].ip = h.ip })
              = Cardinality({ i \in Hosts : hosts[i] = h })

\* C1 happens: a dispatch over a list that names the same host twice has
\* finished with a failed host among its results.
C1_Witness ==
    /\ pc = "done"
    /\ Len(hosts) >= 2
    /\ hosts[1] = hosts[2]
    /\ \E k \in 1..Len(results) : ~results[k].ok
    /\ \E k \in 1..Len(results) : results[k].ok

\* C2: run_parser_on_host never raises: every finished future holds a result
\* record and no exception, a failure is recorded in the result's error
\* field, and main never dies inside the dispatch (it ends early only before
\* the first submit or after the last future was collected).
C2_ExecutorNeverRaises ==
    /\ \A i \in Hosts :
          Finished(i) =>
              /\ future[i].exception = None
              /\ future[i].result # None
              /\ (~ResultOf(i).ok => ResultOf(i).error # None)
    /\ (pc = "exit" => nsubmitted = 0 \/ as_completed_over)

\* C2 happens: a host's execution timed out after the connection was made,
\* and the function returned a result that records it.
C2_Witness ==
    \E i \in Hosts :
        /\ Finished(i)
        /\ clients[i] = "closed"
        /\ future[i].result # None
        /\ ResultOf(i).error =
               Some(<<"Connection/run error: ", "socket.timeout", ": ">>)

\* C3: with concurrency >= 1, every submitted host is eventually executed
\* and its result collected, whatever the other hosts' outcomes are.
C3_EverySubmittedHostIsCollected ==
    \A i \in 1..MaxHosts :
        (i \in Hosts /\ future[i].state = "pending") ~> (i \in collected)

\* C3 happens: one host failed to connect and another host's result was
\* collected after being run.
C3_Witness ==
    \E i, j \in Hosts :
        /\ i # j
        /\ concurrency >= 1
        /\ Finished(i)
        /\ attempts[i] = 1
        /\ clients[i] = "unconnected"
        /\ j \in collected
        /\ attempts[j] = 1
        /\ ResultOf(j).ok

\* C4: at every moment at most `concurrency` host executions are in flight.
C4_AtMostConcurrencyInFlight == Cardinality(InFlight) <= concurrency

\* C4 happens: as many executions as the limit allows are in flight while
\* another host waits in the queue.
C4_Witness ==
    /\ concurrency >= 1
    /\ Cardinality(InFlight) = concurrency
    /\ work_queue # <<>>

\* C5: when run_parser_on_host has returned, no client created by _connect
\* is left open.
C5_EveryClientReleased ==
    \A i \in Hosts : Finished(i) => clients[i] \notin {"open", "half"}

C10_MalformedAtHaltsBeforeDispatch ==
    at.kind = "malformed" =>
        /\ nsubmitted = 0
        /\ num_threads = 0
        /\ \A i \in Hosts : attempts[i] = 0 /\ clients[i] = "none"
        /\ pc \in {"start", "gate", "exit"}
        /\ (pc = "exit" => exitCode # None /\ Get(exitCode) # 0)

\* C10 happens: a run over a non-empty host list ended on a malformed --at.
C10_Witness ==
    /\ at.kind = "malformed"
    /\ Len(hosts) > 0
    /\ pc = "exit"
    /\ exitCode = Some(2)

\* C11: the scheduled-start gate.  With an --at that is not after the clock
\* main read, time.sleep is never called and main goes straight on to the
\* dispatch; with an --at of T, no host execution is submitted while the
\* local clock is before T.
C11_ScheduledStartGate ==
    at.kind = "time" =>
        /\ (delta # None /\ Get(delta) <= 0) => (~slept /\ pc # "sleep")
        /\ nsubmitted > 0 => now >= at.when

\* C11 happens: --at was after the clock, main slept and then submitted a
\* host.
C11_Witness ==
    /\ at.kind = "time"
    /\ at.when > NowStart
    /\ slept
    /\ nsubmitted > 0

\* C14: the aggregate JSON is written, and the summary counted, only when
\* every submitted host's execution has finished and its result has been
\* appended: what was written is the whole results list, one result per
\* host, and the counts add up to the number of hosts.
C14_AggregateAfterAllWork ==
    LET all_done ==
            /\ nsubmitted = Len(hosts)
            /\ \A i \in Hosts : Finished(i) /\ i \in collected
            /\ Len(results) = Len(hosts)
    IN  /\ saved # None =>
               /\ all_done
               /\ Get(saved) = results
               /\ Len(Get(saved)) = Len(hosts)
        /\ summary # None =>
               /\ all_done
               /\ Get(summary).ok + Get(summary).fail = Len(hosts)
               /\ Get(summary).ok =
                      Cardinality({i \in Hosts : ResultOf(i).ok})

\* C14 happens: the aggregate of two hosts, one that succeeded and one that
\* failed, was written and the summary printed.
C14_Witness ==
    /\ Len(hosts) = 2
    /\ saved # None
    /\ summary = Some([ok |-> 1, fail |-> 1])
    /\ Len(Get(saved)) = 2

\* A step of a worker thread: only those change a thread's position.
WorkerStep == thr' # thr

\* C15: results is changed by the dispatcher only and with completed work
\* only.  A step that changes results is a step of main that appends the
\* result of a host whose worker has returned and whose connection is
\* closed; a step of a worker thread leaves results, the parser text, the
\* cutoff, the defaults and the host list as they are.
C15_OnlyDispatcherAppendsCompletedWork ==
    [][ /\ WorkerStep =>
              UNCHANGED <<results, parser_text, cutoff, defaults, hosts>>
        /\ results' # results =>
              /\ ~WorkerStep
              /\ \E i \in Hosts :
                    /\ Finished(i)
                    /\ thr[i] = NoLocals
                    /\ results' = Append(results, ResultOf(i))
                    /\ clients[i] \notin {"open", "half"} ]_vars

\* The part of C15 about who changes what: as C15, less the state of the
\* host's connection when its result is appended.
C15_OnlyDispatcherAppends ==
    [][ /\ WorkerStep =>
              UNCHANGED <<results, parser_text, cutoff, defaults, hosts>>
        /\ results' # results =>
              /\ ~WorkerStep
              /\ \E i \in Hosts :
                    /\ Finished(i)
                    /\ thr[i] = NoLocals
                    /\ results' = Append(results, ResultOf(i)) ]_vars

----------------------------------------------------------------------------
\* Properties of overnight_testing.py (SpecOvernight).

\* C6: when start_one or stop_one has returned, neither the client nor the
\* channel that _open_shell opened is left open.
C6_ShellReleased ==
    (otPc = "idle" /\ otCalls > 0) => (otConn # "open" /\ otChan # "open")

\* C16: what _send_sequence has sent is the steps of the sequence so far,
\* in list order and once each: the interrupt byte as it is, every other
\* step, the empty one too, followed by one newline; when the call returned
\* True every step was sent; and each step was sent no sooner than the
\* delay after the step before it: two seconds after a first step that
\* attaches the screen, the per-step delay otherwise.
C16_StepsInOrderWithDelays ==
    otOp \in {"start", "stop"} =>
        LET sequence == Sequence(otOp)
        IN  /\ Len(otSent) <= Len(sequence)
            /\ Len(otSentAt) = Len(otSent)
            /\ \A k \in 1..Len(otSent) :
                   /\ sequence[k] = <<ETX>> => otSent[k] = <<ETX>>
                   /\ sequence[k] # <<ETX>> =>
                          /\ Len(otSent[k]) = Len(sequence[k]) + 1
                          /\ SubSeq(otSent[k], 1, Len(sequence[k]))
                                = sequence[k]
                          /\ otSent[k][Len(otSent[k])] = "\n"
            /\ otRet = Some(TRUE) => Len(otSent) = Len(sequence)
            /\ \A k \in 1..(Len(otSentAt) - 1) :
                   otSentAt[k + 1] - otSentAt[k] >=
                       (IF k = 1 THEN 20 ELSE IF otOp = "start" THEN 10 ELSE 7)
            /\ Len(otSentAt) > 0 => otClock >= otSentAt[Len(otSentAt)]

\* C16 happens: stop_one sent its whole sequence, the empty step and the
\* interrupt byte included.
C16_Witness ==
    /\ otOp = "stop"
    /\ otRet = Some(TRUE)
    /\ Len(otSent) = 4
    /\ otSent[2] = <<"\n">>
    /\ otSent[4] = <<ETX>>
    /\ otSentAt[4] - otSentAt[1] >= 34

\* C17: start_one and stop_one never raise, and they return True exactly
\* when the shell was opened and every step of the sequence was sent with
\* no exception; when the connection, the shell or a send raised they
\* return False, and no step after a send that raised is sent.
C17_TrueExactlyWhenAllSent ==
    LET sequence == Sequence(otOp)
        returned == otPc = "idle" /\ otCalls > 0
        all_sent == /\ otChan # "none"
                    /\ Len(otSent) = Len(sequence)
                    /\ otExc = None
    IN  /\ otExc # None => Get(otExc).caught
        /\ returned => otRet \in {Some(TRUE), Some(FALSE)}
        /\ returned => (otRet = Some(TRUE) <=> all_sent)
        /\ (returned /\ otExc # None) => otRet = Some(FALSE)
        /\ (otExc # None /\ Get(otExc).where = "send") =>
               /\ Len(otSent) = otStep
               /\ otStep < Len(sequence)
        /\ (otExc # None /\ Get(otExc).where # "send") => otSent = <<>>

\* C17 happens: stop_one returned False after its third send raised, with
\* two steps sent.
C17_Witness ==
    /\ otPc = "idle"
    /\ otOp = "stop"
    /\ otRet = Some(FALSE)
    /\ otExc # None
    /\ Get(otExc).where = "send"
    /\ Len(otSent) = 2

----------------------------------------------------------------------------
\* Properties of remote_error_log_parser.py (SpecRemote).

\* C7: once connect has succeeded, the client is closed before ssh_run
\* returns or raises.
C7_ClientClosedOnEveryExit ==
    rpPc \in {"loop", "raised", "done"} => rpConn # "open"

\* C20: the script run_log_parser launched for a model choice opens an SSH
\* session only to a machine whose name is of the chosen family: a PS1 name
\* for PS1, a PS2 name for PS2, either for BOTH.
C20_SessionsOnlyToSelectedFamily ==
    \A k \in 1..Len(rpOpened) :
        /\ Len(rpArgv) = 2
        /\ filter_machines_for_choice(rpDevices[rpOpened[k]].name, rpArgv[2])

----------------------------------------------------------------------------
\* Properties of read_hosts (SpecReadHosts).

\* The comma-separated fields of a line, each without surrounding whitespace.
Fields(raw) ==
    LET sp == split(strip(raw), ",")
    IN  [k \in 1..Len(sp) |-> strip(sp[k])]

\* A blank line, or a line whose first character is "#".
BlankOrComment(raw) == strip(raw) = <<>> \/ startswith(raw, "#")

\* A line that is blank or a comment once its leading whitespace is dropped.
Ignored(raw) == strip(raw) = <<>> \/ startswith(strip(raw), "#")

\* C12 as stated: of the lines read so far, a blank line or a line starting
\* with "#" gives no entry, a line of one field gives an entry with that
\* address and neither identity nor port, and a line of three fields gives
\* an entry whose address, identity and port are those fields in order.
C12_HostListParsingAsStated ==
    \A k \in 1..rhLineNo :
        LET f == Fields(rhFile[k])
            n == Cardinality({j \in 1..k : ~BlankOrComment(rhFile[j])})
        IN  /\ BlankOrComment(rhFile[k]) =>
                   Len(rhHosts) <= Cardinality(
                       {j \in 1..rhLineNo : ~BlankOrComment(rhFile[j])}
                       \ {k})
            /\ (~BlankOrComment(rhFile[k]) /\ Len(f) = 1) =>
                   /\ Len(rhHosts) >= n
                   /\ rhHosts[n].ip = f[1]
                   /\ rhHosts[n].username = None
                   /\ rhHosts[n].port = None
            /\ (~BlankOrComment(rhFile[k]) /\ Len(f) = 3) =>
                   /\ Len(rhHosts) >= n
                   /\ rhHosts[n].ip = f[1]
                   /\ rhHosts[n].username = Some(f[2])
                   /\ f[3] \in DOMAIN Numerals
                   /\ rhHosts[n].port = Some(Numerals[f[3]])

\* C12: the lines are name,ip[,username][,port].  Of the lines read so far,
\* those that are blank or start with "#" (leading whitespace aside) give no
\* entry and every other line gives one entry, in file order, whose name and
\* ip are the first two fields, whose username is the third field when it is
\* there and not empty, and whose port is the number in the fourth field
\* when it is there and not empty; read_hosts raises ValueError, and returns
\* nothing, exactly at the first line that has a single field or a fourth
\* field that is not a number.
C12_HostListParsing ==
    LET kept == {k \in 1..rhLineNo : ~Ignored(rhFile[k])}
        bad(k) == LET f == Fields(rhFile[k])
                  IN  \/ Len(f) < 2
                      \/ Len(f) >= 4 /\ f[4] # <<>>
                            /\ f[4] \notin DOMAIN Numerals
    IN  /\ \A k \in kept : bad(k) <=> (rhPc = "raised" /\ k = rhLineNo)
        /\ Len(rhHosts) = Cardinality({k \in kept : ~bad(k)})
        /\ \A k \in kept :
               ~bad(k) =>
                  LET f == Fields(rhFile[k])
                      e == rhHosts[Cardinality({j \in kept : j <= k})]
                  IN  /\ e.name = f[1]
                      /\ e.ip = f[2]
                      /\ e.username = IF Len(f) >= 3 /\ f[3] # <<>>
                                       THEN Some(f[3]) ELSE None
                      /\ e.port = IF Len(f) >= 4 /\ f[4] # <<>>
                                   THEN Some(Numerals[f[4]]) ELSE None
        /\ rhPc = "returned" => rhLineNo = Len(rhFile)

\* C12 happens: read_hosts took an entry with a username and a port from
\* the first line and raised ValueError at a second line that holds a bare
\* address.
C12_Witness ==
    /\ rhPc = "raised"
    /\ rhLineNo = 2
    /\ Len(rhHosts) = 1
    /\ rhHosts[1].username # None
    /\ rhHosts[1].port = Some(2222)
    /\ Len(Fields(rhFile[2])) = 1

----------------------------------------------------------------------------
\* Properties of one host's execution run twice (SpecTwoRuns).

\* The texts a run shows: the str fields of the result, the printed lines
\* and what json.dump wrote.
Shown(x) ==
    LET r == Get(crResult[x])
    IN  (IF crResult[x] = None THEN {}
         ELSE {r.output} \cup (IF r.error = None THEN {} ELSE {Get(r.error)})
              \cup (IF r.username = None THEN {} ELSE {r.username}))
        \cup { crPrinted[x][k] : k \in 1..Len(crPrinted[x]) }
        \cup UNION { { crJson[x][j][k] : k \in 1..Len(crJson[x][j]) } :
                     j \in 1..Len(crJson[x]) }

\* The text holds the value of the secret.
Contains(t, secret) ==
    secret # None /\ \E k \in 1..Len(t) : t[k] = Get(secret)

BothDone == \A x \in Runs : crPc[x] = "done"

SameShown ==
    /\ crResult["A"] = crResult["B"]
    /\ crPrinted["A"] = crPrinted["B"]
    /\ crJson["A"] = crJson["B"]

----------------------------------------------------------------------------
\* Properties of HostsRepo.load (SpecHostsRepo).

\* The lines of the file that are not blank, as they are in the file.
NonBlank(f) == SelectSeq(f, LAMBDA x : strip(x) # <<>>)

\* The line, leading whitespace aside, starts with SINCE= as written.
StartsWithSINCE(x) ==
    LET line == strip(x)
    IN  Len(line) >= 2 /\ line[1] = "SINCE" /\ line[2] = "="

\* The line, leading whitespace aside, starts with SINCE= in any letter case.
StartsWithSinceAnyCase(x) ==
    LET line == strip(x)
    IN  Len(line) >= 2 /\ line[1] \in {"SINCE", "since"} /\ line[2] = "="

\* What load returned for the machine lines: one Machine for each of the
\* given lines that holds a comma, in order, its name what is before the
\* first comma, stripped and in upper case, its ip the stripped rest.
MachinesOf(ls) ==
    LET with_comma == SelectSeq(ls, LAMBDA x : has(x, ","))
    IN  /\ Len(hrMachines) = Len(with_comma)
        /\ \A k \in 1..Len(with_comma) :
               LET pair == split_once(with_comma[k], ",")
               IN  /\ hrMachines[k].name = upper(strip(pair[1]))
                   /\ hrMachines[k].ip = strip(pair[2])

\* What is after the first "=" of the line, without surrounding whitespace.
ValueOf(x) == strip(split_once(x, "=")[2])

\* C18 as stated: load returns the cutoff exactly when the first line that
\* is not blank starts with SINCE=, and the machines of the lines after it,
\* or of all lines when there is no such first line.
C18_LoadAsStated ==
    hrPc = "returned" =>
        IF hrFile = None \/ NonBlank(Get(hrFile)) = <<>>
        THEN hrSince = None /\ hrMachines = <<>>
        ELSE LET nb == NonBlank(Get(hrFile))
             IN  IF StartsWithSINCE(nb[1])
                 THEN /\ hrSince = Some(ValueOf(nb[1]))
                      /\ MachinesOf(Tail(nb))
                 ELSE /\ hrSince = None
                      /\ MachinesOf(nb)

\* C18: load returns the cutoff exactly when the first line that is not
\* blank starts with SINCE= in any letter case, the cutoff being what
\* follows the "=" without surrounding whitespace; it returns one Machine
\* for each line after that one that holds a comma, in file order and
\* without deduplication, the name in upper case; a first line that is not
\* such a line is a machine line and the cutoff is None; a missing file
\* and a file of blank lines give None and no machine.
C18_Load ==
    hrPc = "returned" =>
        IF hrFile = None \/ NonBlank(Get(hrFile)) = <<>>
        THEN hrSince = None /\ hrMachines = <<>>
        ELSE LET nb == NonBlank(Get(hrFile))
             IN  IF StartsWithSinceAnyCase(nb[1])
                 THEN /\ hrSince = Some(ValueOf(nb[1]))
                      /\ MachinesOf(Tail(nb))
                 ELSE /\ hrSince = None
                      /\ MachinesOf(nb)

\* C18 happens: load read a cutoff written as since= with spaces around the
\* value, and the same machine line twice.
C18_Witness ==
    /\ hrPc = "returned"
    /\ hrSince = Some(<<"202511052000">>)
    /\ hrFile # None
    /\ Get(hrFile)[1] = <<" ", "since", "=", " ", "202511052000", " ", "\n">>
    /\ Len(hrMachines) = 2
    /\ hrMachines[1] = hrMachines[2]
    /\ hrMachines[1].name = <<"PS1234567">>

----------------------------------------------------------------------------
\* Properties of parse_since_input (SpecSince).

\* The datetime the first candidate format that fits t gives, None when
\* none fits.
Accepted(t) ==
    IF \E k \in 1..Len(candidates) : strptime(t, candidates[k]) # None
    THEN strptime(t, candidates[
             CHOOSE k \in 1..Len(candidates) :
                 /\ strptime(t, candidates[k]) # None
                 /\ \A j \in 1..(k - 1) : strptime(t, candidates[j]) = None])
    ELSE None

\* YYYYMMDDHHMM of a datetime.
Rendering(dt) ==
    digits(dt.year, 4) \o digits(dt.month, 2) \o digits(dt.day, 2)
        \o digits(dt.hour, 2) \o digits(dt.minute, 2)

\* What C19 says of the value returned for the input.
SinceAsStated ==
    LET t == strip(psInput)
        r == Get(psRet)
    IN  /\ r = <<"0">> \/ (Len(r) = 12 /\ isdigit(r))
        /\ IF t = <<>> THEN r = <<"0">>
           ELSE IF isdigit(t) /\ Len(t) = 12 THEN r = t
           ELSE IF isdigit(t) /\ Len(t) = 10 THEN r = t \o <<"0", "0">>
           ELSE IF Accepted(t) # None THEN r = Rendering(Get(Accepted(t)))
           ELSE r = <<"0">>

\* C19: parse_since_input returns "0" or twelve digits: "0" for a blank
\* input, the input for twelve digits, the input and "00" for ten digits,
\* the YYYYMMDDHHMM rendering of an input in an accepted format, and "0"
\* for any other input.
C19_ZeroOrTwelveDigits == psPc = "returned" => SinceAsStated

\* C19 where strftime writes the year in four digits, or the year has four
\* digits of its own.
C19_ZeroOrTwelveDigitsFromYear1000 ==
    (psPc = "returned"
       /\ (psPadsYear \/ Accepted(psT) = None
             \/ Get(Accepted(psT)).year >= 1000))
      => SinceAsStated

----------------------------------------------------------------------------
\* Properties of main.py: main (SpecMain).

\* The entries of the log of one kind, in order.
Events(ev) ==
    LET Is(e) == e.ev = ev
    IN  SelectSeq(mnLog, Is)

\* The machine names of a list of log entries or of machines.
Names(list) == [k \in 1..Len(list) |-> list[k].name]

\* The phase a log entry belongs to.
Phase(e) ==
    CASE e.ev = "start" -> 1
      [] e.ev = "wait_begin" -> 2
      [] e.ev = "wait_end" -> 3
      [] e.ev = "stop" -> 4
      [] e.ev = "collect" -> 5

\* C21: the phases of main come in order for the same machines: every
\* start attempt precedes the wait, the wait is over before any stop attempt,
\* every stop attempt precedes the launch of the log collection, every
\* selected PS1 machine has had its start attempt when the wait begins, and
\* the machines a stop was attempted on are those a start was attempted on,
\* whether the start succeeded or not.
C21_PhasesInOrderOnSameMachines ==
    /\ \A i, j \in 1..Len(mnLog) :
          i < j => Phase(mnLog[i]) <= Phase(mnLog[j])
    /\ Events("wait_begin") # <<>> =>
          Names(Events("start")) = Names(mnPs1)
    /\ Events("stop") # <<>> \/ Events("collect") # <<>> =>
          Events("wait_end") # <<>>
    /\ \E n \in 0..Len(Events("start")) :
          Names(Events("stop")) = SubSeq(Names(Events("start")), 1, n)
    /\ Events("collect") # <<>> =>
          Names(Events("stop")) = Names(Events("start"))

\* C21 happens: the log collection was launched after a run in which a
\* start attempt failed and the stop was attempted on that machine too.
C21_Witness ==
    /\ Events("collect") # <<>>
    /\ \E k \in 1..Len(Events("start")) :
          /\ ~Events("start")[k].ok
          /\ Events("stop")[k].name = Events("start")[k].name

\* main has opened a remote session: a start or stop attempt was made or
\* the log collection was launched.
SessionOpened ==
    \E k \in 1..Len(mnLog) : mnLog[k].ev \in {"start", "stop", "collect"}

\* A float that is a positive number.
IsPositive(h) == h.kind = "inf" \/ (h.kind = "finite" /\ h.value > 0)

\* The guards of main other than the one on the duration: both credentials
\* are set, the scan succeeded, hosts.txt gave a machine, its SINCE is the
\* one of this run, and the model filter kept a machine.
OtherGuardsPassed ==
    /\ mnCreds # None
    /\ TruthyStr(Get(mnCreds).username)
    /\ TruthyStr(Get(mnCreds).password)
    /\ mnScan = Some("ok")
    /\ mnLoaded # None
    /\ Get(mnLoaded).machines # <<>>
    /\ Get(mnLoaded).since = mnSince
    /\ selected(Get(mnLoaded).machines, Get(mnChoice)) # <<>>

\* C22: main opens no remote session (no start, no stop, no log
\* collection) unless every pre-flight guard passed: the credentials are
\* present, the duration given is a valid positive number, the scan
\* succeeded, hosts.txt gave at least one machine, the SINCE read back is
\* the SINCE of this run, and the model filter selected a machine.
C22_NoSessionUnlessGuardsPassed ==
    SessionOpened =>
        /\ OtherGuardsPassed
        /\ mnHours # None
        /\ IsPositive(Get(mnHours))

\* What does hold of the duration: no session is opened unless
\* prompt_duration_hours returned a float, which nan also is.
C22_NoSessionUnlessDurationAccepted ==
    SessionOpened => OtherGuardsPassed /\ mnHours # None

----------------------------------------------------------------------------
\* Properties of start_bulk / stop_bulk (SpecBulk).

\* C23: whatever model_choice and the machine list are, start_bulk and
\* stop_bulk open a remote shell only to machines whose normalized name is a
\* PS1 name; a PS2 machine and a machine of neither family are never
\* connected to.
C23_ShellsOnlyToPS1Machines ==
    \A k \in 1..Len(bkCalled) : is_ps1_name(bkCalled[k].name)

\* What does hold: the statement for the model choices PS1, PS2 and BOTH,
\* in any case and with surrounding whitespace.
C23_ShellsOnlyToPS1MachinesForKnownChoice ==
    bulk_choice(bkChoice) \in {<<"PS1">>, <<"PS2">>, <<"BOTH">>} =>
        \A k \in 1..Len(bkCalled) : is_ps1_name(bkCalled[k].name)

----------------------------------------------------------------------------
\* Properties of HostsRepo.write followed by HostsRepo.load (SpecHostsRepo).

\* The machines as load gives them back: the names upper-cased.
UpperCased(machines) ==
    [k \in 1..Len(machines) |->
        [name |-> upper(machines[k].name), ip |-> machines[k].ip]]

\* load returned the cutoff and the machines write was given.
RoundTrip ==
    /\ hrSince = Some(Get(hrArgs).since)
    /\ hrMachines = UpperCased(Get(hrArgs).machines)

\* C24 as stated: for every cutoff and every list of machines (no comma,
\* newline or surrounding whitespace in a name or address), load after write
\* returns the same cutoff and the same machines in the same order with the
\* names upper-cased.
C24_RoundTripAsStated ==
    hrArgs # None /\ hrPc = "returned" => RoundTrip

\* C24: the same for a cutoff that holds no newline and no surrounding
\* whitespace; the empty cutoff, the empty machine list and a first machine
\* whose name begins with SINCE= are among the cases.
C24_RoundTrip ==
    /\ hrArgs # None
    /\ hrPc = "returned"
    /\ ~has(Get(hrArgs).since, "\n")
    /\ strip(Get(hrArgs).since) = Get(hrArgs).since
    => RoundTrip

\* C24 happens: the empty cutoff was written with two machines, the first
\* named SINCE=X, the second in lower case, and load has returned.
C24_Witness ==
    /\ hrPc = "returned"
    /\ hrArgs # None
    /\ Get(hrArgs).since = <<>>
    /\ Len(Get(hrArgs).machines) = 2
    /\ Get(hrArgs).machines[1].name = <<"SINCE", "=", "X">>
    /\ Get(hrArgs).machines[2].name = <<"ps1234567">>
    /\ RoundTrip
====
